---- MODULE Spec2Model ----
(***************************************************************************)
(* The analysis pipeline of github-stars-categorizer:                      *)
(*   AnalyzerService (analyzer.service.ts), CacheService                   *)
(*   (cache.service.ts), GeminiService (gemini.service.ts), the error      *)
(*   helpers of lib/errors.ts and the taxonomy of config.ts.               *)
(*                                                                         *)
(* Strings the code inspects character by character (repository names,    *)
(* category names) are sequences of one-character strings.  A string the  *)
(* code builds from a template is the tuple of the template's parts.      *)
(* One step of the model is one continuation of the single JavaScript     *)
(* thread: the code from the resolution of one awaited I/O operation to   *)
(* the next awaited I/O operation.  The timestamp field of a record is a  *)
(* wall-clock reading and is left out of the records.                     *)
(***************************************************************************)
EXTENDS Integers, Sequences, FiniteSets, TLC

(***************************************************************************)
(* Bounds of the model.                                                    *)
(***************************************************************************)
\* number of analyzeAll calls made on the one AnalyzerService instance
MaxRuns == 2
\* largest repos.length of one analyzeAll call
MaxBatch == 2
\* largest number of items all analyzeAll calls together are given
MaxItems == 3
\* cfg.CATEGORIZER_CONCURRENCY of the modelled configuration
CATEGORIZER_CONCURRENCY == 2
\* cfg.RETRY_MAX_ATTEMPTS of the modelled configuration
RETRY_MAX_ATTEMPTS == 1
\* the most lists getAllLists finds on the account
MaxLists == 4
\* new PQueue({ concurrency: 2 }) of GitHubService
LIST_QUEUE_CONCURRENCY == 2

(***************************************************************************)
(* Static data: the taxonomy (config.ts).                                  *)
(***************************************************************************)
CATEGORIESWithTools ==
   << [name |-> <<"T","o","o","l","s">>, emoji |-> <<":wrench:">>],
      [name |-> <<"O","t","h","e","r"," ","T","o","o","l","s">>, emoji |-> <<":package:">>] >>
CATEGORIES ==
   << [name |-> <<"A","I"," ","&"," ","L","L","M">>,
       emoji |-> <<":robot:">>],
      [name |-> <<"U","I"," ","&"," ","D","e","s","i","g","n"," ","S","y","s","t","e","m","s">>,
       emoji |-> <<":palette:">>],
      [name |-> <<"F","r","o","n","t","e","n","d"," ","F","r","a","m","e","w","o","r","k","s">>,
       emoji |-> <<":atom:">>],
      [name |-> <<"T","e","s","t","i","n","g"," ","&"," ","Q","A">>,
       emoji |-> <<":testtube:">>],
      [name |-> <<"B","a","c","k","e","n","d"," ","&"," ","R","u","n","t","i","m","e","s">>,
       emoji |-> <<":rocket:">>],
      [name |-> <<"D","e","v","O","p","s"," ","&"," ","C","o","n","t","a","i","n","e","r","s">>,
       emoji |-> <<":whale:">>],
      [name |-> <<"C","L","I"," ","&"," ","T","e","r","m","i","n","a","l">>,
       emoji |-> <<":laptop:">>],
      [name |-> <<"C","o","d","e"," ","Q","u","a","l","i","t","y">>,
       emoji |-> <<":sparkles:">>],
      [name |-> <<"D","e","v"," ","T","o","o","l","i","n","g">>,
       emoji |-> <<":tools:">>],
      [name |-> <<"W","e","b"," ","S","c","r","a","p","i","n","g"," ","&"," ","A","P","I","s">>,
       emoji |-> <<":globe:">>],
      [name |-> <<"E","d","i","t","o","r","s"," ","&"," ","I","D","E","s">>,
       emoji |-> <<":memo:">>],
      [name |-> <<"M","e","d","i","a"," ","&"," ","D","o","w","n","l","o","a","d">>,
       emoji |-> <<":camera:">>],
      [name |-> <<"T","r","a","d","i","n","g"," ","&"," ","F","i","n","a","n","c","e">>,
       emoji |-> <<":chart:">>],
      [name |-> <<"L","o","g","g","i","n","g"," ","&"," ","D","e","b","u","g">>,
       emoji |-> <<":magnifier:">>],
      [name |-> <<"D","a","t","a","b","a","s","e","s"," ","&"," ","A","u","t","h">>,
       emoji |-> <<":lock:">>],
      [name |-> <<"L","e","a","r","n","i","n","g"," ","R","e","s","o","u","r","c","e","s">>,
       emoji |-> <<":books:">>],
      [name |-> <<"U","t","i","l","i","t","i","e","s"," ","&"," ","L","i","b","r","a","r","i","e","s">>,
       emoji |-> <<":toolbox:">>],
      [name |-> <<"O","t","h","e","r"," ","T","o","o","l","s">>,
       emoji |-> <<":package:">>] >>

\* CATEGORY_NAMES = CATEGORIES.map((c) => c.name)
CATEGORY_NAMES == { CATEGORIES[i].name : i \in 1..Len(CATEGORIES) }

\* the literals of parseResponse's fallback and of analyzeAll's catch branch
OtherTools == <<"O","t","h","e","r"," ","T","o","o","l","s">>
Uncategorized == <<"U","n","c","a","t","e","g","o","r","i","z","e","d">>

(***************************************************************************)
(* String helpers.                                                         *)
(***************************************************************************)
\* String.prototype.includes: needle occurs in hay as a contiguous run
Includes(hay, needle) ==
   \E i \in 0..(Len(hay) - Len(needle)) :
      \A j \in 1..Len(needle) : hay[i + j] = needle[j]

\* String.prototype.trim: leading and trailing blanks removed
RECURSIVE TrimLeft(_)
TrimLeft(s) == IF s # <<>> /\ Head(s) = " " THEN TrimLeft(Tail(s)) ELSE s
RECURSIVE TrimRight(_)
TrimRight(s) ==
   IF s # <<>> /\ s[Len(s)] = " " THEN TrimRight(SubSeq(s, 1, Len(s) - 1)) ELSE s
Trim(s) == TrimRight(TrimLeft(s))

\* the characters [a-zA-Z0-9-] that occur in the modelled names
SlugSafe == {"a", "b", "c", "d", "-"}

\* CacheService.slugify: name.replace(/\//g, "-").replace(/[^a-zA-Z0-9-]/g, "_")
slugify(name) ==
   LET step1 == [i \in 1..Len(name) |-> IF name[i] = "/" THEN "-" ELSE name[i]]
   IN  [i \in 1..Len(name) |-> IF step1[i] \in SlugSafe THEN step1[i] ELSE "_"]

(***************************************************************************)
(* The repositories handed to analyzeAll (GitHubRepo: full_name, node_id). *)
(* "a-b/c" and "a/b-c" are distinct identities with the same cache key.    *)
(***************************************************************************)
Repos ==
   { [full_name |-> <<"a","-","b","/","c">>, node_id |-> "N1"],
     [full_name |-> <<"a","/","b","-","c">>, node_id |-> "N2"],
     [full_name |-> <<"a","/","c",".","d">>, node_id |-> "N3"] }

\* the cache keys (file names under cache/analysis) of the modelled names
Keys == { slugify(r.full_name) : r \in Repos }

(***************************************************************************)
(* The error classes.  An error is a record: class (the constructor), message  *)
(* (a sequence of words; message.includes(w) is Includes(message, <<w>>)), *)
(* status / code / errorStatus (the fields status, error.code and          *)
(* error.status of an API error; 0 and "" stand for undefined), and, for a *)
(* GeminiAPIError, statusCode and retryable.                               *)
(***************************************************************************)
Undefined == 0

PlainError(msg, status, code, errorStatus) ==
   [class |-> "Error", message |-> msg, status |-> status, code |-> code,
    errorStatus |-> errorStatus]

\* new GeminiAPIError(message, statusCode, retryable)
GeminiAPIError(msg, statusCode, retryable) ==
   [class |-> "GeminiAPIError", message |-> msg, statusCode |-> statusCode,
    retryable |-> retryable]

\* isRetryableError
isRetryableErrorByStatusCode(error) ==
   IF error.class = "GeminiAPIError"
   THEN error.statusCode \in {429, 503}
   ELSE LET errorCode == IF error.status # Undefined THEN error.status ELSE error.code
        IN  \/ errorCode = 429
            \/ errorCode = 503
            \/ error.errorStatus = "UNAVAILABLE"
            \/ Includes(error.message, <<"503">>)
            \/ Includes(error.message, <<"overloaded">>)
            \/ Includes(error.message, <<"UNAVAILABLE">>)
isRetryableError(error) ==
   IF error.class = "GeminiAPIError"
   THEN error.retryable
   ELSE LET errorCode == IF error.status # Undefined THEN error.status ELSE error.code
        IN  \/ errorCode = 429
            \/ errorCode = 503
            \/ error.errorStatus = "UNAVAILABLE"
            \/ Includes(error.message, <<"503">>)
            \/ Includes(error.message, <<"overloaded">>)
            \/ Includes(error.message, <<"UNAVAILABLE">>)

\* getErrorMessage: error.message of an Error
getErrorMessageString(error) == <<"Error:">> \o error.message
getErrorMessage(error) == error.message

(***************************************************************************)
(* GeminiService (gemini.service.ts).                                      *)
(***************************************************************************)
\* GeminiService.extractErrorCode: apiError.status || apiError.error?.code
extractErrorCode(error) ==
   IF error.class = "GeminiAPIError" THEN Undefined
   ELSE IF error.status # Undefined THEN error.status ELSE error.code

\* The text of a response is a sequence of tokens: an opening brace, a
\* closing brace, a run of other characters without braces (Word), or the
\* members of a JSON object (Fields: hasCategory / isString say whether the
\* category member is present / is a string).
LBrace == [tok |-> "{"]
RBrace == [tok |-> "}"]
Word == [tok |-> "word"]
Fields(hasCategory, isString, category, confidence) ==
   [tok |-> "fields", hasCategory |-> hasCategory, isString |-> isString,
    category |-> category, confidence |-> confidence,
    reasoning |-> <<"Brief explanation">>]

\* text.match(/\{[\s\S]*\}/): the quantifier is greedy, so the match runs
\* from the first "{" to the last "}" after it; <<>> is null (no match)
jsonMatch(raw) ==
   LET opens == { i \in 1..Len(raw) : raw[i].tok = "{" }
       first == CHOOSE i \in opens : \A j \in opens : i <= j
       closes == { i \in 1..Len(raw) : raw[i].tok = "}" /\ i > first }
       last == CHOOSE i \in closes : \A j \in closes : i >= j
   IN  IF opens = {} THEN <<>>
       ELSE IF closes = {} THEN <<>>
       ELSE SubSeq(raw, first, last)

\* JSON.parse(jsonMatch[0]) accepts the match: an object is "{", its members
\* and "}", or "{" and "}" alone
JSONParses(m) == Len(m) = 2 \/ (Len(m) = 3 /\ m[2].tok = "fields")

\* The text as parseResponse reads it: raw (the tokens), braces (the regular
\* expression matches), parses (JSON.parse accepts the match), hasCategory /
\* isString and category, confidence, reasoning (the members of the parsed
\* object)
ReadText(raw) ==
   LET m == jsonMatch(raw)
       ok == Len(m) > 0 /\ JSONParses(m)
       f == IF ok /\ Len(m) = 3 THEN m[2] ELSE Fields(FALSE, FALSE, <<>>, 0)
   IN  [raw |-> raw, braces |-> Len(m) > 0, parses |-> ok,
        hasCategory |-> f.hasCategory, isString |-> f.isString,
        category |-> f.category, confidence |-> f.confidence,
        reasoning |-> f.reasoning]

\* the answer the prompt asks for: {"category": ..., "confidence": ...,
\* "reasoning": "Brief explanation"}
ResponseText(category, confidence) ==
   ReadText(<<LBrace, Fields(TRUE, TRUE, category, confidence), RBrace>>)

\* CATEGORIES.find(...): the index of the first entry that the trimmed
\* category equals, equals with its emoji prefix, or contains; 0 when none
MatchesEntry(cat, categoryName) ==
   \/ cat.name = categoryName
   \/ cat.emoji \o <<" ">> \o cat.name = categoryName
   \/ Includes(categoryName, cat.name)

matchedCategoryLast(categoryName) ==
   LET hits == { i \in 1..Len(CATEGORIES) : MatchesEntry(CATEGORIES[i], categoryName) }
   IN  IF hits = {} THEN 0 ELSE CHOOSE i \in hits : \A j \in hits : i >= j
matchedCategory(categoryName) ==
   LET hits == { i \in 1..Len(CATEGORIES) : MatchesEntry(CATEGORIES[i], categoryName) }
   IN  IF hits = {} THEN 0 ELSE CHOOSE i \in hits : \A j \in hits : i <= j

\* GeminiService.parseResponse: [ok, value] on return, [ok, error] on throw
parseResponseRaw(text) ==
   [ok |-> TRUE,
    value |-> [category |-> Trim(text.category), confidence |-> text.confidence,
               reasoning |-> text.reasoning]]
parseResponse(text) ==
   IF ~text.braces
   THEN [ok |-> FALSE,
         error |-> GeminiAPIError(<<"No","JSON","found","in","response">>, Undefined, TRUE)]
   ELSE IF ~text.parses
   THEN [ok |-> FALSE,
         error |-> [class |-> "SyntaxError",
                    message |-> <<"Unexpected","token","in","JSON">>,
                    status |-> Undefined, code |-> Undefined, errorStatus |-> ""]]
   ELSE IF ~text.hasCategory \/ ~text.isString \/ Trim(text.category) = <<>>
   THEN [ok |-> FALSE,
         error |-> GeminiAPIError(<<"Empty","or","invalid","category","in","response">>,
                                  503, TRUE)]
   ELSE LET categoryName == Trim(text.category)
            m == matchedCategory(categoryName)
        IN  [ok |-> TRUE,
             value |->
                IF m # 0
                THEN [category |-> CATEGORIES[m].name, confidence |-> text.confidence,
                      reasoning |-> text.reasoning]
                ELSE [category |-> OtherTools, confidence |-> text.confidence,
                      reasoning |-> <<"Original: ", categoryName,
                                      ". Fallback to Other Tools.">>]]

\* What one call of client.models.generateContent can do: resolve with a
\* result (text, groundingMetadata.groundingChunks.length,
\* usageMetadata.totalTokenCount) or reject with an API error.
EndpointOutcomes ==
   { [kind |-> "result",
      text |-> ResponseText(<<"F","r","o","n","t","e","n","d"," ","F","r","a","m","e","w","o","r","k","s">>, 95),
      groundingChunks |-> 0, totalTokenCount |-> 100],
     [kind |-> "result",
      text |-> ResponseText(<<"Q","u","a","n","t","u","m"," ","C","r","y","p","t","o","g","r","a","p","h","y">>, 60),
      groundingChunks |-> 1, totalTokenCount |-> 200],
     [kind |-> "error",
      error |-> PlainError(<<"503","Service","Unavailable">>, 503, Undefined, "")],
     [kind |-> "error",
      error |-> PlainError(<<"Invalid","request">>, 400, Undefined, "")] }

\* The body of the function given to pRetry (categorize, lines 54-110): one
\* attempt.  [ok, value: GeminiResponse] or [ok, error: the GeminiAPIError
\* the catch of lines 102-109 wraps the failure in].
WrapError(error) ==
   GeminiAPIError(<<"Gemini","API","error:">> \o getErrorMessage(error),
                  extractErrorCode(error), isRetryableError(error))

attemptOnce(outcome) ==
   IF outcome.kind = "error"
   THEN [ok |-> FALSE, error |-> WrapError(outcome.error)]
   ELSE LET text == IF Len(outcome.text.raw) = 0
                    THEN ReadText(<<LBrace, RBrace>>)
                    ELSE outcome.text
            parsed == parseResponse(text)
        IN  IF parsed.ok
            THEN [ok |-> TRUE,
                  value |-> [categorization |-> parsed.value,
                             groundingChunks |-> outcome.groundingChunks,
                             tokensUsed |-> outcome.totalTokenCount]]
            ELSE [ok |-> FALSE, error |-> WrapError(parsed.error)]

\* onFailedAttempt of the pRetry options (lines 117-121): TRUE when it
\* rethrows, which makes pRetry reject at once
onFailedAttemptThrows(error) ==
   /\ Includes(error.message, <<"GeminiAPIError">>)
   /\ ~isRetryableError(error)

\* p-retry with retries: cfg.RETRY_MAX_ATTEMPTS: after the failure of attempt
\* number attemptNumber another attempt is made while attemptNumber <= retries
retriesLeftAlways(attemptNumber) == TRUE
retriesLeft(attemptNumber) == attemptNumber <= RETRY_MAX_ATTEMPTS

(***************************************************************************)
(* State.                                                                  *)
(***************************************************************************)
VARIABLES
   cache,   \* cache/analysis: key -> the file stored under that key
   cache0,  \* cache/analysis as the process found it (never changes)
   stats,   \* AnalyzerService.stats
   queue,   \* the jobs waiting in AnalyzerService.queue (p-queue), oldest first
   runs,    \* the analyzeAll calls: arguments, locals and promise state
   tasks,   \* the jobs given to queue.add, one per (call, index of the item)
   snap,    \* the object a caller holds after const s = analyzer.getStats()
   cli,     \* the entry point: its flags, its position and what it has called
   gh       \* GitHubService: the list mutations in its queue

vars == <<cache, cache0, stats, queue, runs, tasks, snap, cli, gh>>

RunIds == 1..MaxRuns
TaskIds == RunIds \X (1..MaxBatch)

\* the batches an analyzeAll call can be given: every list of at most MaxBatch
\* repositories, the same repository twice included
Batches == UNION { [1..n -> Repos] : n \in 0..MaxBatch }

\* a file of cache/analysis: absent, unreadable as JSON, or a stored record
NoFile == [kind |-> "none"]
CorruptFile == [kind |-> "corrupt"]
JsonFile(result) == [kind |-> "json", value |-> result]

ZeroStats ==
   [total |-> 0, analyzed |-> 0, cached |-> 0, failed |-> 0,
    totalTokens |-> 0, totalWebSearches |-> 0]

\* the number of items the analyzeAll calls made so far were given
RECURSIVE SumLen(_)
SumLen(r) == IF r = 0 THEN 0 ELSE Len(runs[r].repos) + SumLen(r - 1)
ItemsGiven == SumLen(MaxRuns)

\* the repository a job works on
RepoOf(t) == runs[t[1]].repos[t[2]]
\* CacheService.getAnalysisPath: the file of a repository name
getAnalysisPath(repoName) == slugify(repoName)
KeyOf(t) == getAnalysisPath(RepoOf(t).full_name)

\* the jobs p-queue counts as pending (started and not yet settled)
InFlight(tk) == { t \in TaskIds : tk[t].pc \in {"exists", "read", "generate", "write"} }
Running == InFlight(tasks)

\* p-queue: another job may start while fewer than concurrency are pending
doesConcurrentAllowAnotherOff(pending) == pending <= CATEGORIZER_CONCURRENCY
doesConcurrentAllowAnother(pending) == pending < CATEGORIZER_CONCURRENCY

(***************************************************************************)
(* CacheService (cache.service.ts) and lib/fs-utils.ts.                    *)
(***************************************************************************)
\* fileExists(path): access(path) succeeds
fileExists(file) == file.kind # "none"

\* getAnalysis after fileExists: readJSON, then { ...result, cached: true };
\* <<>> is null (readJSON threw and the catch returned null)
getAnalysisReadKeepFlag(file) == IF file.kind = "json" THEN <<file.value>> ELSE <<>>
getAnalysisReadNull(file) == <<>>
getAnalysisRead(file) ==
   IF file.kind = "json" THEN <<[file.value EXCEPT !.cached = TRUE]>> ELSE <<>>

\* the CacheError readJSON throws when readFile or JSON.parse fails
ReadError ==
   [class |-> "CacheError", message |-> <<"Failed","to","read","JSON","file:">>]

\* getAnalysis lines 93-98: the try block catches readJSON's error and
\* returns null, so getAnalysis never throws
getAnalysisThrowsOnCorrupt(file) == file.kind = "corrupt"
getAnalysisThrows(file) == FALSE

\* saveAnalysis with a writeJSON that succeeds: the file of the record's
\* repository name now holds the record
saveAnalysis(files, result) ==
   [files EXCEPT ![getAnalysisPath(result.repo.full_name)] = JsonFile(result)]

\* the CacheError writeJSON throws when mkdir or writeFile fails
WriteError ==
   [class |-> "CacheError", message |-> <<"Failed","to","write","JSON","file:">>]

(***************************************************************************)
(* AnalyzerService.analyzeAll (analyzer.service.ts): the records, the      *)
(* progress events and the counter updates of its three branches.          *)
(***************************************************************************)
IsFailed(result) == "failed" \in DOMAIN result /\ result.failed

\* completed++ (lines 84, 116, 135)
incrementCompletedNot(completed) == completed
incrementCompleted(completed) == completed + 1

\* lines 83-92: cache hit
statsCached(s) == [s EXCEPT !.cached = @ + 1]
progressCached(current, total, repo, cached) ==
   [current |-> current, total |-> total, repo |-> repo.full_name, cached |-> TRUE,
    category |-> cached.categorization.category,
    confidence |-> cached.categorization.confidence]

\* lines 101-111: the classifier answered
statsAnalyzed(s, response) ==
   [s EXCEPT !.analyzed = @ + 1,
             !.totalTokens = @ + response.tokensUsed,
             !.totalWebSearches = @ + response.groundingChunks]
freshResult(repo, response) ==
   [repo |-> repo, categorization |-> response.categorization,
    webSearchCalls |-> response.groundingChunks, cached |-> FALSE]
\* lines 119-128
progressAnalyzed(current, total, repo, response) ==
   [current |-> current, total |-> total, repo |-> repo.full_name, cached |-> FALSE,
    category |-> response.categorization.category,
    confidence |-> response.categorization.confidence,
    tokensUsed |-> response.tokensUsed]

\* lines 131-155: the catch branch
statsFailed(s) == [s EXCEPT !.failed = @ + 1]
progressFailed(current, total, repo) ==
   [current |-> current, total |-> total, repo |-> repo.full_name, cached |-> FALSE]
failedResult(repo, errorMsg) ==
   [repo |-> repo,
    categorization |-> [category |-> Uncategorized, confidence |-> 0,
                        reasoning |-> <<"Analysis failed: ", errorMsg>>],
    webSearchCalls |-> 0, cached |-> FALSE, failed |-> TRUE, error |-> errorMsg]
\* the catch branch returns its record without a call of saveAnalysis
catchBranchCacheSaves(files, result) == saveAnalysis(files, result)
catchBranchCache(files, result) == files

(***************************************************************************)
(* The jobs.  pc is the awaited operation a job is suspended at:           *)
(*   "idle"     not created         "queued"   waiting in the p-queue      *)
(*   "exists"   access(path) of fileExists, inside getAnalysis             *)
(*   "read"     readFile(path) of readJSON, inside getAnalysis             *)
(*   "generate" generateContent of attempt number `attempt` (and the       *)
(*              backoff delay p-retry waits before it)                     *)
(*   "write"    mkdir / writeFile of writeJSON, inside saveAnalysis        *)
(*   "done"     settled                                                    *)
(* response is the GeminiResponse held across saveAnalysis, result the     *)
(* record the job returned.  The other fields record what the job did:     *)
(* reads / calls / saves count its calls of getAnalysis, categorize and    *)
(* saveAnalysis, wrote says saveAnalysis returned, found is the record     *)
(* readFile found stored, threw says categorize rejected, counted names    *)
(* the counters of stats the job incremented, emitted counts its progress  *)
(* events, stored are the jobs with the same cache key whose saveAnalysis  *)
(* had returned when this job started, failures are the errors the         *)
(* attempts of categorize threw, in order, answer is the text of the       *)
(* response the successful attempt parsed.                                 *)
(* A call records in prior the calls that had resolved when it was made.   *)
(***************************************************************************)
IdleTask ==
   [pc |-> "idle", attempt |-> 0, response |-> <<>>, result |-> <<>>,
    reads |-> 0, calls |-> 0, saves |-> 0, wrote |-> FALSE, found |-> <<>>,
    threw |-> FALSE, counted |-> {}, emitted |-> 0, stored |-> {},
    failures |-> <<>>, answer |-> <<>>, received |-> <<>>, hung |-> FALSE]

IdleRun ==
   [state |-> "idle", repos |-> <<>>, skipCache |-> FALSE, completed |-> 0,
    order |-> <<>>, progress |-> <<>>, prior |-> {}, reset |-> FALSE]

\* the records analyzeAll has pushed to results, in push order
Results(r) ==
   [i \in 1..Len(runs[r].order) |-> tasks[<<r, runs[r].order[i]>>].result[1]]

\* lines 97-99: await this.gemini.categorize(repo), up to the first attempt
beginCategorize(task) == [task EXCEPT !.pc = "generate", !.calls = @ + 1, !.attempt = 1]

\* lines 76-81: a job starts and runs to its first await
startJobNeverLookup(task, skipCache) == beginCategorize(task)
startJobAlwaysLookup(task, skipCache) == [task EXCEPT !.pc = "exists", !.reads = @ + 1]
startJob(task, skipCache) ==
   IF ~skipCache
   THEN [task EXCEPT !.pc = "exists", !.reads = @ + 1]
   ELSE beginCategorize(task)

\* the catch clause of line 131 catches whatever the try block threw
catchesOnlyCacheErrors(error) == error.class = "CacheError"
catches(error) == TRUE

\* how many of `waiting` queued jobs p-queue starts with `pending` running
RECURSIVE startable(_, _)
startable(pending, waiting) ==
   IF waiting > 0 /\ doesConcurrentAllowAnother(pending)
   THEN 1 + startable(pending + 1, waiting - 1)
   ELSE 0

\* Promise.all of line 73 resolves when every job has pushed its record
allPushed(order, repos) == Len(order) = Len(repos)

(***************************************************************************)
(* Initial state: a new AnalyzerService; cache/analysis is what earlier     *)
(* processes left: no file, an unreadable file, or the record of an        *)
(* earlier successful analysis.                                            *)
(***************************************************************************)
EarlierResponse ==
   [categorization |-> [category |-> CATEGORIES[7].name, confidence |-> 85,
                        reasoning |-> <<"Brief explanation">>],
    groundingChunks |-> 0, tokensUsed |-> 50]

InitialCaches ==
   { [k \in Keys |-> NoFile],
     [k \in Keys |->
        IF k = <<"a","-","b","-","c">>
        THEN JsonFile(freshResult([full_name |-> <<"a","/","b","-","c">>, node_id |-> "N2"],
                                  EarlierResponse))
        ELSE CorruptFile],
     [k \in Keys |->
        IF k = <<"a","-","b","-","c">>
        THEN CorruptFile
        ELSE JsonFile(freshResult([full_name |-> <<"a","/","c",".","d">>, node_id |-> "N3"],
                                  EarlierResponse))] }

(***************************************************************************)
(* The caller's side of getStats.  A caller keeps the object getStats      *)
(* returned; shared says whether that object is this.stats itself, value   *)
(* holds its counters when it is an object of its own, atReturn the        *)
(* counters at the moment of the return, edits counts the caller's writes. *)
(***************************************************************************)
NoSnapshot ==
   [taken |-> FALSE, shared |-> FALSE, value |-> ZeroStats, atReturn |-> ZeroStats,
    edits |-> 0]

\* getStats: return { ...this.stats }, a new object with the six counters
getStatsReference(s) == [shared |-> TRUE, value |-> s]
getStats(s) == [shared |-> FALSE, value |-> s]

\* the counters the caller reads in the object it holds
SnapshotValue == IF snap.shared THEN stats ELSE snap.value

(***************************************************************************)
(* ReporterService.generateReport (reporter.service.ts lines 24-49).  The  *)
(* timestamp of the report is left out.                                    *)
(***************************************************************************)
NoReport ==
   [made |-> FALSE, totalRepos |-> 0, categories |-> <<>>, stats |-> ZeroStats,
    failedRepos |-> <<>>]

\* lines 32-37: the entry of the category is made when it is not there,
\* then count++ and repos.push(full_name)
countInAnew(categories, result) ==
   LET category == result.categorization.category
   IN  [c \in DOMAIN categories \cup {category} |->
          IF c = category
          THEN [count |-> 1, repos |-> <<result.repo.full_name>>]
          ELSE categories[c]]
countIn(categories, result) ==
   LET category == result.categorization.category
       had == IF category \in DOMAIN categories THEN categories[category]
              ELSE [count |-> 0, repos |-> <<>>]
   IN  [c \in DOMAIN categories \cup {category} |->
          IF c = category
          THEN [count |-> had.count + 1,
                repos |-> Append(had.repos, result.repo.full_name)]
          ELSE categories[c]]

\* the loop of lines 28-38 over results[i..]
RECURSIVE reportLoop(_, _, _, _)
reportLoop(results, i, categories, failedRepos) ==
   IF i > Len(results) THEN [categories |-> categories, failedRepos |-> failedRepos]
   ELSE IF IsFailed(results[i])
   THEN reportLoop(results, i + 1, categories,
                   Append(failedRepos, results[i].repo.full_name))
   ELSE reportLoop(results, i + 1, countIn(categories, results[i]), failedRepos)

generateReport(results, s) ==
   LET end == reportLoop(results, 1, <<>>, <<>>)
   IN  [made |-> TRUE, totalRepos |-> Len(results), categories |-> end.categories,
        stats |-> s, failedRepos |-> end.failedRepos]

\* the entry point before it starts, and a GitHubService with an empty queue
\* options: --fast and --model ("" when not given); env: GEMINI_MODEL of
\* the environment ("" when unset); cachedConfig: the GEMINI_MODEL of the
\* config singleton ("" while it is null); model: GeminiService.model
NoModelOption == [fast |-> FALSE, model |-> ""]
IdleCli ==
   [entry |-> "", flags |-> [dryRun |-> FALSE, keepLists |-> FALSE, skipCache |-> FALSE],
    pc |-> "idle", analyzer |-> FALSE, batch |-> FALSE, calls |-> <<>>,
    shutdowns |-> 0, ended |-> "",
    options |-> NoModelOption, env |-> "", cachedConfig |-> "", model |-> "",
    report |-> NoReport]
IdleGh == [pc |-> "idle", op |-> "", jobs |-> <<>>, waiting |-> <<>>,
           results |-> <<>>, lists |-> <<>>, total |-> 0, completed |-> 0,
           progress |-> <<>>]

Init ==
   /\ cache \in InitialCaches
   /\ cache0 = cache
   /\ stats = ZeroStats
   /\ queue = <<>>
   /\ runs = [r \in RunIds |-> IdleRun]
   /\ tasks = [t \in TaskIds |-> IdleTask]
   /\ snap = NoSnapshot
   /\ cli = IdleCli
   /\ gh = IdleGh

(***************************************************************************)
(* p-queue: starting jobs.                                                 *)
(***************************************************************************)
KeyIn(rn, t) == getAnalysisPath(rn[t[1]].repos[t[2]].full_name)

\* the jobs of S start (each runs to its first await); rn is the run table
Launch(rn, tk, S) ==
   [t \in TaskIds |->
      IF t \in S
      THEN [startJob(tk[t], rn[t[1]].skipCache) EXCEPT !.stored =
              { u \in TaskIds \ {t} : tk[u].wrote /\ KeyIn(rn, u) = KeyIn(rn, t) }]
      ELSE tk[t]]

\* A job settles: p-queue's next() starts the oldest waiting job, the
\* continuation of line 159 pushes the record, and Promise.all resolves once
\* every record of the call is pushed (rejects at once if the job rejected).
Settle(t, done, events, rejected) ==
   LET r == t[1]
       tk0 == [tasks EXCEPT ![t] = [done EXCEPT !.pc = "done",
                                                !.emitted = @ + Len(events)]]
       next == IF queue # <<>> /\ doesConcurrentAllowAnother(Cardinality(InFlight(tk0)))
               THEN {Head(queue)} ELSE {}
       order == IF rejected THEN runs[r].order ELSE Append(runs[r].order, t[2])
   IN  /\ tasks' = Launch(runs, tk0, next)
       /\ queue' = IF next # {} THEN Tail(queue) ELSE queue
       /\ runs' = [runs EXCEPT ![r] =
                     [@ EXCEPT !.completed = IF events = <<>> THEN @
                                             ELSE incrementCompleted(@),
                               !.progress = @ \o events,
                               !.order = order,
                               !.state = IF @ # "pending" THEN @
                                         ELSE IF rejected THEN "rejected"
                                         ELSE IF allPushed(order, runs[r].repos)
                                              THEN "resolved" ELSE "pending"]]

\* lines 131-155: the catch branch for `error`, thrown by categorize or by
\* saveAnalysis
Catch(t, task, error) ==
   IF catches(error)
   THEN LET errorMsg == getErrorMessage(error)
            current == incrementCompleted(runs[t[1]].completed)
            result == failedResult(RepoOf(t), errorMsg)
        IN  /\ stats' = statsFailed(stats)
            /\ cache' = catchBranchCache(cache, result)
            /\ Settle(t,
                      [task EXCEPT !.result = <<result>>,
                                   !.counted = @ \cup {"failed"}],
                      <<progressFailed(current, stats.total, RepoOf(t))>>,
                      FALSE)
   ELSE /\ stats' = stats
        /\ cache' = cache
        /\ Settle(t, task, <<>>, TRUE)

(***************************************************************************)
(* Actions.                                                                *)
(***************************************************************************)
\* analyzeAll(repos, skipCache, onProgress) is called: lines 68-75, every
\* queue.add of the map included
analyzeAll(r, repos, skipCache) ==
   /\ runs[r].state = "idle"
   /\ \A q \in RunIds : q < r => runs[q].state # "idle"
   /\ ItemsGiven + Len(repos) <= MaxItems
   /\ LET n == Len(repos)
          rn == [runs EXCEPT ![r] =
                   [IdleRun EXCEPT !.state = IF n = 0 THEN "resolved" ELSE "pending",
                                   !.repos = repos,
                                   !.skipCache = skipCache,
                                   !.prior = { q \in RunIds : runs[q].state = "resolved" }]]
          waiting == queue \o [i \in 1..n |-> <<r, i>>]
          k == startable(Cardinality(Running), Len(waiting))
          tk0 == [t \in TaskIds |->
                    IF t[1] = r /\ t[2] <= n THEN [tasks[t] EXCEPT !.pc = "queued"]
                    ELSE tasks[t]]
      IN  /\ stats' = [stats EXCEPT !.total = n]
          /\ runs' = rn
          /\ tasks' = Launch(rn, tk0, { waiting[i] : i \in 1..k })
          /\ queue' = SubSeq(waiting, k + 1, Len(waiting))
   /\ UNCHANGED <<cache, cache0>>

\* a caller other than the entry points calls analyzeAll
AnalyzeAll(r, repos, skipCache) ==
   /\ analyzeAll(r, repos, skipCache)
   /\ UNCHANGED <<snap, cli, gh>>

\* access(path) of fileExists settles (getAnalysis, line 89)
FileExists(t) ==
   /\ tasks[t].pc = "exists"
   /\ tasks' = [tasks EXCEPT ![t] =
                  IF fileExists(cache[KeyOf(t)])
                  THEN [@ EXCEPT !.pc = "read"]
                  ELSE beginCategorize(@)]
   /\ UNCHANGED <<cache, cache0, stats, queue, runs, snap, cli, gh>>

\* readFile(path) of readJSON settles (getAnalysis, lines 93-98), then
\* analyzeAll lines 82-95
ReadJSON(t) ==
   /\ tasks[t].pc = "read"
   /\ LET file == cache[KeyOf(t)]
          cached == getAnalysisRead(file)
          found == IF file.kind = "json" THEN <<file.value>> ELSE <<>>
      IN  IF getAnalysisThrows(file)
          THEN Catch(t, tasks[t], ReadError)
          ELSE IF cached # <<>>
          THEN /\ stats' = statsCached(stats)
               /\ cache' = cache
               /\ Settle(t,
                         [tasks[t] EXCEPT !.result = cached, !.found = found,
                                          !.counted = @ \cup {"cached"}],
                         <<progressCached(incrementCompleted(runs[t[1]].completed),
                                          stats.total, RepoOf(t), cached[1])>>,
                         FALSE)
          ELSE /\ tasks' = [tasks EXCEPT ![t] = beginCategorize([@ EXCEPT !.found = found])]
               /\ UNCHANGED <<cache, stats, queue, runs>>
   /\ UNCHANGED <<cache0, snap, cli, gh>>

\* generateContent of the current attempt settles with `outcome`: the rest
\* of the attempt, p-retry's decision, then analyzeAll lines 101-114 or the
\* catch branch
GenerateContent(t, outcome) ==
   /\ tasks[t].pc = "generate"
   /\ ~tasks[t].hung
   /\ LET a == attemptOnce(outcome)
      IN  IF a.ok
          THEN /\ stats' = statsAnalyzed(stats, a.value)
               /\ tasks' = [tasks EXCEPT ![t] =
                              [@ EXCEPT !.pc = "write", !.response = <<a.value>>,
                                        !.saves = @ + 1,
                                        !.answer = <<outcome.text>>,
                                        !.received = Append(@, outcome),
                                        !.counted = @ \cup {"analyzed"}]]
               /\ UNCHANGED <<cache, queue, runs>>
          ELSE IF ~onFailedAttemptThrows(a.error) /\ retriesLeft(tasks[t].attempt)
          THEN /\ tasks' = [tasks EXCEPT ![t] =
                              [@ EXCEPT !.attempt = @ + 1,
                                        !.failures = Append(@, a.error),
                                        !.received = Append(@, outcome)]]
               /\ UNCHANGED <<cache, stats, queue, runs>>
          ELSE Catch(t, [tasks[t] EXCEPT !.threw = TRUE,
                                         !.failures = Append(@, a.error),
                                         !.received = Append(@, outcome)],
                     a.error)
   /\ UNCHANGED <<cache0, snap, cli, gh>>

\* generateContent of the current attempt never settles: the promise of
\* line 60 stays pending, and nothing in categorize (lines 53-123: no
\* timeout option, no AbortSignal, no race with a timer) settles it
NeverResponds(t) ==
   /\ tasks[t].pc = "generate"
   /\ ~tasks[t].hung
   /\ tasks' = [tasks EXCEPT ![t] = [@ EXCEPT !.hung = TRUE]]
   /\ UNCHANGED <<cache, cache0, stats, queue, runs, snap, cli, gh>>

\* mkdir / writeFile of writeJSON settle (saveAnalysis, line 114): with ok
\* the file is written and lines 116-130 follow; otherwise writeJSON throws
\* its CacheError and nothing was written
WriteJSON(t, ok) ==
   /\ tasks[t].pc = "write"
   /\ LET response == tasks[t].response[1]
          result == freshResult(RepoOf(t), response)
      IN  IF ok
          THEN /\ cache' = saveAnalysis(cache, result)
               /\ stats' = stats
               /\ Settle(t,
                         [tasks[t] EXCEPT !.result = <<result>>, !.wrote = TRUE],
                         <<progressAnalyzed(incrementCompleted(runs[t[1]].completed),
                                            stats.total, RepoOf(t), response)>>,
                         FALSE)
          ELSE Catch(t, tasks[t], WriteError)
   /\ UNCHANGED <<cache0, snap, cli, gh>>

\* resetStats: this.stats = { total: 0, analyzed: 0, ... }
resetStatsKeepsTokens(s) == [ZeroStats EXCEPT !.totalTokens = s.totalTokens]
resetStats(s) == ZeroStats

\* resetStats(), called while no analyzeAll call is pending; the calls made
\* so far are marked as followed by a reset
ResetStats ==
   /\ stats # ZeroStats
   /\ \A r \in RunIds : runs[r].state # "pending"
   /\ stats' = resetStats(stats)
   /\ runs' = [r \in RunIds |->
                IF runs[r].state = "idle" THEN runs[r]
                ELSE [runs[r] EXCEPT !.reset = TRUE]]
   /\ snap' = IF snap.shared THEN [snap EXCEPT !.shared = FALSE, !.value = stats]
              ELSE snap
   /\ UNCHANGED <<cache, cache0, queue, tasks, cli, gh>>

\* const s = analyzer.getStats(), at any moment
GetStats ==
   /\ ~snap.taken
   /\ LET returned == getStats(stats)
      IN  snap' = [taken |-> TRUE, shared |-> returned.shared,
                   value |-> returned.value, atReturn |-> stats, edits |-> 0]
   /\ UNCHANGED <<cache, cache0, stats, queue, runs, tasks, cli, gh>>

\* the caller writes a counter of the object it holds: s[field] = 99
MutateSnapshot(field) ==
   /\ snap.taken
   /\ snap.edits = 0
   /\ IF snap.shared
      THEN /\ stats' = [stats EXCEPT ![field] = 99]
           /\ snap' = [snap EXCEPT !.edits = @ + 1]
      ELSE /\ stats' = stats
           /\ snap' = [snap EXCEPT !.value = [@ EXCEPT ![field] = 99],
                                   !.edits = @ + 1]
   /\ UNCHANGED <<cache, cache0, queue, runs, tasks, cli, gh>>

(***************************************************************************)
(* The entry points: "index" is the action of the command (run and the     *)
(* try / catch / finally around it), "useAnalysis" the run function of the *)
(* hook.  cli.pc names the operation the entry point awaits, cli.calls the *)
(* operations it has invoked, in order.                                    *)
(***************************************************************************)
Entries == {"index", "useAnalysis"}
Flags == [dryRun : BOOLEAN, keepLists : BOOLEAN, skipCache : BOOLEAN]

\* step 4 is left out: if (options.dryRun) return (index, line 150),
\* if (!flags.dryRun) { ... } (useAnalysis, line 117)
syncSkippedNever(flags) == FALSE
syncSkipped(flags) == flags.dryRun

\* the operation awaited once `op` has resolved; "return" when none is left
nextCall(entry, flags, op) ==
   CASE op = "saveSummary" -> "saveDetails"
     [] op = "saveDetails" ->
           IF syncSkipped(flags) THEN "return"
           ELSE IF ~flags.keepLists THEN "clearAllLists"
           ELSE "createLists"
     [] op = "clearAllLists" -> "createLists"
     [] op = "createLists" -> "assignReposToLists"
     [] op = "assignReposToLists" -> IF entry = "index" THEN "getUsername" ELSE "return"
     [] op = "getUsername" -> "return"

\* an awaited operation rejects.  index: run rejects before `analyzer =
\* result.analyzer`, the catch block calls process.exit(1), which ends the
\* process; useAnalysis: the catch block sets phase 'error'.
thrown(c) ==
   [c EXCEPT !.pc = "ended",
             !.ended = IF c.entry = "index" THEN "exit 1" ELSE "error"]

\* every operation has resolved.  index: run returns { analyzer }, the
\* caller assigns it and the finally block awaits analyzer.shutdown();
\* useAnalysis: phase 'done', then await analyzer.shutdown().
returned(c) ==
   [c EXCEPT !.analyzer = TRUE, !.pc = "shutdown", !.shutdowns = @ + 1,
             !.calls = Append(@, "shutdown")]

\* getConfig: envSchema.safeParse(process.env), GEMINI_MODEL defaulting to
\* "gemini-2.5-flash"
getConfig(env) == IF env = "" THEN "gemini-2.5-flash" ELSE env

\* config(): the singleton; getConfig runs only while cachedConfig is null
config(cachedConfig, env) ==
   IF cachedConfig = "" THEN getConfig(env) ELSE cachedConfig

\* the override of process.env.GEMINI_MODEL by --fast or --model
overrideModel(env, options) ==
   IF options.fast THEN "gemini-2.5-flash"
   ELSE IF options.model # "" THEN options.model
   ELSE env

\* the entry point starts: config() is called, then process.env.GEMINI_MODEL
\* is overridden, then the services are constructed (the GeminiService
\* constructor reads config().GEMINI_MODEL), then cache.getStarredRepos or
\* github.fetchStarredRepos is awaited
CliStart(entry, flags, options, env) ==
   /\ cli.pc = "idle"
   /\ LET cached == config(cli.cachedConfig, env)
          env1 == overrideModel(env, options)
      IN  cli' = [IdleCli EXCEPT !.entry = entry, !.flags = flags, !.pc = "fetch",
                                !.options = options, !.env = env1,
                                !.cachedConfig = cached,
                                !.model = config(cached, env1)]
   /\ UNCHANGED <<cache, cache0, stats, queue, runs, tasks, snap, gh>>

\* the repositories arrive (limit applied): analyzer.analyzeAll is called;
\* or fetching rejects
CliFetch(ok, repos) ==
   /\ cli.pc = "fetch"
   /\ IF ok
      THEN /\ analyzeAll(1, repos, cli.flags.skipCache)
           /\ cli' = [cli EXCEPT !.pc = "analyzeAll", !.calls = Append(@, "analyzeAll")]
      ELSE /\ cli' = thrown(cli)
           /\ UNCHANGED <<cache, cache0, stats, queue, runs, tasks>>
   /\ UNCHANGED <<snap, gh>>

\* analyzeAll has settled: getStats, generateReport, then saveSummary
CliAnalyzed ==
   /\ cli.pc = "analyzeAll"
   /\ runs[1].state \in {"resolved", "rejected"}
   /\ cli' = IF runs[1].state = "resolved"
             THEN [cli EXCEPT !.batch = TRUE, !.pc = "saveSummary",
                              !.calls = Append(@, "saveSummary"),
                              !.report = generateReport(Results(1),
                                                        getStats(stats).value)]
             ELSE thrown(cli)
   /\ UNCHANGED <<cache, cache0, stats, queue, runs, tasks, snap, gh>>

\* the awaited report or sync operation settles
CliSettle(ok) ==
   /\ cli.pc \in {"saveSummary", "saveDetails", "clearAllLists", "createLists",
                  "assignReposToLists", "getUsername"}
   /\ LET next == nextCall(cli.entry, cli.flags, cli.pc)
      IN  cli' = IF ~ok THEN thrown(cli)
                 ELSE IF next = "return" THEN returned(cli)
                 ELSE [cli EXCEPT !.pc = next, !.calls = Append(@, next)]
   /\ UNCHANGED <<cache, cache0, stats, queue, runs, tasks, snap, gh>>

\* analyzer.shutdown() settles and the program ends
CliShutdown(ok) ==
   /\ cli.pc = "shutdown"
   /\ cli' = IF ok THEN [cli EXCEPT !.pc = "ended", !.ended = "done"] ELSE thrown(cli)
   /\ UNCHANGED <<cache, cache0, stats, queue, runs, tasks, snap, gh>>

(***************************************************************************)
(* GitHubService (github.service.ts): clearAllLists, its deleteList jobs   *)
(* in the service's queue, and graphqlMutation under each of them.  The    *)
(* interval cap of the queue (2 starts per second) is left out: time is    *)
(* not modelled.                                                           *)
(***************************************************************************)
\* what one run of `gh api graphql` can end in: exit 0 with a JSON answer,
\* or a rejection of execa, by GitHub's secondary rate limit or otherwise
SecondaryRateLimit == "You have exceeded a secondary rate limit"
GhOutcomes == {"ok", SecondaryRateLimit, "Resource not accessible"}

\* graphqlMutation, lines 274-295, once execa has settled: return
\* JSON.parse(stdout), or catch the rejection and throw a GitHubAPIError
graphqlMutation(outcome, invocations) ==
   IF outcome = "ok" THEN "return" ELSE "throw"

IdleMutation == [pc |-> "queued", invocations |-> 0, outcomes |-> <<>>,
                 batch |-> <<>>]
\* a job of the queue starts: deleteList calls graphqlMutation, which runs gh
startMutation(job) == [job EXCEPT !.pc = "running", !.invocations = @ + 1]

MutationsRunning(jobs) == { j \in 1..Len(jobs) : jobs[j].pc = "running" }

\* clearAllLists() is called: getAllLists is awaited
ClearAllLists ==
   /\ gh.pc = "idle"
   /\ gh' = [gh EXCEPT !.pc = "listing", !.op = "clearAllLists"]
   /\ UNCHANGED <<cache, cache0, stats, queue, runs, tasks, snap, cli>>

\* getAllLists settles: it rejects, or finds n lists; with n > 0 every
\* deleteList is added to the queue, which starts as many as it may
GetAllLists(ok, n) ==
   /\ gh.pc = "listing"
   /\ gh' = IF ~ok THEN [gh EXCEPT !.pc = "rejected"]
            ELSE IF n = 0 THEN [gh EXCEPT !.pc = "resolved"]
            ELSE LET k == IF n < LIST_QUEUE_CONCURRENCY THEN n
                          ELSE LIST_QUEUE_CONCURRENCY
                 IN  [gh EXCEPT
                        !.pc = "deleting",
                        !.jobs = [j \in 1..n |-> IF j <= k THEN startMutation(IdleMutation)
                                                 ELSE IdleMutation],
                        !.waiting = [i \in 1..(n - k) |-> k + i]]
   /\ UNCHANGED <<cache, cache0, stats, queue, runs, tasks, snap, cli>>

\* the gh command of job j settles: graphqlMutation returns or throws,
\* deleteList with it, the queue starts its next job, and Promise.all
\* (line 128) rejects on the first failure or resolves after the last job
ExecaGh(j, outcome) ==
   /\ gh.op = "clearAllLists"
   /\ gh.pc \in {"deleting", "rejected"}
   /\ j \in MutationsRunning(gh.jobs)
   /\ LET does == graphqlMutation(outcome, gh.jobs[j].invocations)
          settled == [gh.jobs EXCEPT ![j] =
                        [@ EXCEPT !.pc = IF does = "return" THEN "done" ELSE "failed",
                                  !.outcomes = Append(@, outcome)]]
          jobs == IF gh.waiting = <<>> THEN settled
                  ELSE [settled EXCEPT ![Head(gh.waiting)] = startMutation(@)]
      IN  gh' = [gh EXCEPT
                   !.pc = IF gh.pc = "rejected" \/ does = "throw" THEN "rejected"
                          ELSE IF \A i \in 1..Len(jobs) : jobs[i].pc = "done"
                          THEN "resolved"
                          ELSE "deleting",
                   !.jobs = jobs,
                   !.waiting = IF gh.waiting = <<>> THEN <<>> ELSE Tail(gh.waiting)]
   /\ UNCHANGED <<cache, cache0, stats, queue, runs, tasks, snap, cli>>

(***************************************************************************)
(* GitHubService.assignReposToLists (lines 197-244).                       *)
(***************************************************************************)
BATCH_SIZE == 10

\* list.name.indexOf(" "), as an index of the sequence (0 when there is no
\* space, where the code has -1 on a string that starts at 0)
indexOfSpace(name) ==
   LET at == { i \in 1..Len(name) : name[i] = " " }
   IN  IF at = {} THEN 0 ELSE CHOOSE i \in at : \A k \in at : i <= k

\* list.name.substring(list.name.indexOf(" ") + 1), line 209
categoryName(list) == SubSeq(list.name, indexOfSpace(list.name) + 1, Len(list.name))

\* categoryToListId.get(category) on the Map of lines 207-211: the id of
\* the last list set under that name, Undefined when there is none
listIdForFirst(lists, category) ==
   IF lists = <<>> THEN Undefined ELSE lists[1].id
listIdFor(lists, category) ==
   LET at == { i \in 1..Len(lists) : categoryName(lists[i]) = category }
   IN  IF at = {} THEN Undefined
       ELSE lists[CHOOSE i \in at : \A k \in at : k <= i].id

\* lines 203 and 214-217
successfulResults(results) == SelectSeq(results, LAMBDA r : ~IsFailed(r))
assignments(results, lists) ==
   LET mapped == [i \in 1..Len(successfulResults(results)) |->
                    [listId |-> listIdFor(lists, successfulResults(results)[i]
                                                    .categorization.category),
                     nodeId |-> successfulResults(results)[i].repo.node_id]]
   IN  SelectSeq(mapped, LAMBDA a : a.listId # Undefined)

\* lines 223-227: slices of BATCH_SIZE
batchesOverlapping(all) ==
   [b \in 1..((Len(all) + BATCH_SIZE - 1) \div BATCH_SIZE) |->
      SubSeq(all, (b - 1) * BATCH_SIZE + 1,
             IF b * BATCH_SIZE + 1 < Len(all) THEN b * BATCH_SIZE + 1 ELSE Len(all))]
batches(all) ==
   [b \in 1..((Len(all) + BATCH_SIZE - 1) \div BATCH_SIZE) |->
      SubSeq(all, (b - 1) * BATCH_SIZE + 1,
             IF b * BATCH_SIZE < Len(all) THEN b * BATCH_SIZE ELSE Len(all))]

\* assignReposToLists(results, lists, onProgress) is called: every batch is
\* added to the queue, which starts as many as it may; Promise.all of no
\* batch resolves
AssignReposToLists(results, lists) ==
   /\ gh.pc = "idle"
   /\ LET all == assignments(results, lists)
          n == Len(batches(all))
          k == IF n < LIST_QUEUE_CONCURRENCY THEN n ELSE LIST_QUEUE_CONCURRENCY
          job(b) == [IdleMutation EXCEPT !.batch = batches(all)[b]]
      IN  gh' = [gh EXCEPT
                   !.pc = IF n = 0 THEN "resolved" ELSE "assigning",
                   !.op = "assignReposToLists",
                   !.results = results,
                   !.lists = lists,
                   !.total = Len(all),
                   !.completed = 0,
                   !.jobs = [b \in 1..n |-> IF b <= k THEN startMutation(job(b))
                                            ELSE job(b)],
                   !.waiting = [i \in 1..(n - k) |-> k + i]]
   /\ UNCHANGED <<cache, cache0, stats, queue, runs, tasks, snap, cli>>

\* the gh command of batch j settles (assignReposBatch, lines 246-268): on
\* its return completed grows by the batch and onProgress is called (lines
\* 236-238); the queue starts its next job; Promise.all rejects on the
\* first failure or resolves after the last batch
AssignReposBatch(j, outcome) ==
   /\ gh.op = "assignReposToLists"
   /\ gh.pc \in {"assigning", "rejected"}
   /\ j \in MutationsRunning(gh.jobs)
   /\ LET does == graphqlMutation(outcome, gh.jobs[j].invocations)
          settled == [gh.jobs EXCEPT ![j] =
                        [@ EXCEPT !.pc = IF does = "return" THEN "done" ELSE "failed",
                                  !.outcomes = Append(@, outcome)]]
          jobs == IF gh.waiting = <<>> THEN settled
                  ELSE [settled EXCEPT ![Head(gh.waiting)] = startMutation(@)]
          completed == IF does = "return" THEN gh.completed + Len(gh.jobs[j].batch)
                       ELSE gh.completed
      IN  gh' = [gh EXCEPT
                   !.pc = IF gh.pc = "rejected" \/ does = "throw" THEN "rejected"
                          ELSE IF \A i \in 1..Len(jobs) : jobs[i].pc = "done"
                          THEN "resolved"
                          ELSE "assigning",
                   !.jobs = jobs,
                   !.waiting = IF gh.waiting = <<>> THEN <<>> ELSE Tail(gh.waiting),
                   !.completed = completed,
                   !.progress = IF does = "return"
                                THEN Append(@, [completed |-> completed,
                                                total |-> gh.total])
                                ELSE @]
   /\ UNCHANGED <<cache, cache0, stats, queue, runs, tasks, snap, cli>>

(***************************************************************************)
(* Spec: one analyzeAll call on a new AnalyzerService, over every batch,   *)
(* both values of skipCache, every initial cache and every endpoint        *)
(* outcome; resetStats() once no call is pending.                          *)
(***************************************************************************)
Next ==
   \/ \E repos \in Batches, skipCache \in BOOLEAN : AnalyzeAll(1, repos, skipCache)
   \/ \E t \in TaskIds : FileExists(t)
   \/ \E t \in TaskIds : ReadJSON(t)
   \/ \E t \in TaskIds, outcome \in EndpointOutcomes : GenerateContent(t, outcome)
   \/ \E t \in TaskIds, ok \in BOOLEAN : WriteJSON(t, ok)
   \/ ResetStats

Spec == Init /\ [][Next]_vars

(***************************************************************************)
(* SpecLive: Spec where the event loop keeps running and every awaited     *)
(* operation settles: a step that can be taken is eventually taken.        *)
(***************************************************************************)
SpecLive == Init /\ [][Next]_vars /\ WF_vars(Next)

(***************************************************************************)
(* SpecRuns: up to MaxRuns analyzeAll calls on the same AnalyzerService,   *)
(* one after the other or overlapping, given MaxItems items in all.  The   *)
(* endpoint either answers with a category of the taxonomy or fails with   *)
(* a 503.                                                                  *)
(***************************************************************************)
RunsOutcomes ==
   { o \in EndpointOutcomes :
        \/ o.kind = "result" /\ o.totalTokenCount = 100
        \/ o.kind = "error" /\ o.error.status = 503 }

InitRuns ==
   /\ cache \in { f \in InitialCaches : f[<<"a","-","b","-","c">>] # CorruptFile }
   /\ cache0 = cache
   /\ stats = ZeroStats
   /\ queue = <<>>
   /\ runs = [r \in RunIds |-> IdleRun]
   /\ tasks = [t \in TaskIds |-> IdleTask]
   /\ snap = NoSnapshot
   /\ cli = IdleCli
   /\ gh = IdleGh

NextRuns ==
   \/ \E r \in RunIds, repos \in Batches, skipCache \in BOOLEAN :
         AnalyzeAll(r, repos, skipCache)
   \/ \E t \in TaskIds : FileExists(t)
   \/ \E t \in TaskIds : ReadJSON(t)
   \/ \E t \in TaskIds, outcome \in RunsOutcomes : GenerateContent(t, outcome)
   \/ \E t \in TaskIds, ok \in BOOLEAN : WriteJSON(t, ok)

SpecRuns == InitRuns /\ [][NextRuns]_vars

(***************************************************************************)
(* SpecReset: up to MaxRuns analyzeAll calls on the same AnalyzerService,  *)
(* each awaited before the next, where the caller may call resetStats      *)
(* between them.                                                           *)
(***************************************************************************)
\* a caller that awaits every call calls analyzeAll again
AnalyzeAllNext(r, repos, skipCache) ==
   /\ \A q \in RunIds : runs[q].state # "pending"
   /\ AnalyzeAll(r, repos, skipCache)

NextReset ==
   \/ \E r \in RunIds, repos \in Batches, skipCache \in BOOLEAN :
         AnalyzeAllNext(r, repos, skipCache)
   \/ \E t \in TaskIds : FileExists(t)
   \/ \E t \in TaskIds : ReadJSON(t)
   \/ \E t \in TaskIds, outcome \in RunsOutcomes : GenerateContent(t, outcome)
   \/ \E t \in TaskIds, ok \in BOOLEAN : WriteJSON(t, ok)
   \/ ResetStats

SpecReset == InitRuns /\ [][NextReset]_vars

(***************************************************************************)
(* SpecParse: one analyzeAll call of one item with skipCache = true on an  *)
(* empty cache, where the endpoint answers with well-formed JSON whose     *)
(* category is any taxonomy name, any name behind its emoji, or one of the *)
(* strings of OtherAnswers (padded, containing one or two names,           *)
(* unmatched).                                                             *)
(***************************************************************************)
OtherAnswers ==
      { <<" ","C","o","d","e"," ","Q","u","a","l","i","t","y"," ">>,
        <<"B","e","s","t"," ","C","o","d","e"," ","Q","u","a","l","i","t","y"," ","t","o","o","l","s">>,
        <<"D","e","v"," ","T","o","o","l","i","n","g"," ","a","n","d"," ","C","o","d","e"," ","Q","u","a","l","i","t","y">>,
        <<"O","t","h","e","r"," ","T","o","o","l","s"," ","o","r"," ","A","I"," ","&"," ","L","L","M">>,
        <<"Q","u","a","n","t","u","m"," ","C","r","y","p","t","o","g","r","a","p","h","y">>,
        <<"c","o","d","e"," ","q","u","a","l","i","t","y">>,
        <<"T","o","o","l","s">> }

ParseCategories ==
   CATEGORY_NAMES
   \cup { CATEGORIES[i].emoji \o <<" ">> \o CATEGORIES[i].name : i \in 1..Len(CATEGORIES) }
   \cup OtherAnswers

ParseOutcomes ==
   { [kind |-> "result", text |-> ResponseText(c, 90),
      groundingChunks |-> 0, totalTokenCount |-> 10] : c \in ParseCategories }

InitParse ==
   /\ cache = [k \in Keys |-> NoFile]
   /\ cache0 = cache
   /\ stats = ZeroStats
   /\ queue = <<>>
   /\ runs = [r \in RunIds |-> IdleRun]
   /\ tasks = [t \in TaskIds |-> IdleTask]
   /\ snap = NoSnapshot
   /\ cli = IdleCli
   /\ gh = IdleGh

NextParse ==
   \/ \E repo \in Repos : AnalyzeAll(1, <<repo>>, TRUE)
   \/ \E t \in TaskIds, outcome \in ParseOutcomes : GenerateContent(t, outcome)
   \/ \E t \in TaskIds : WriteJSON(t, TRUE)

SpecParse == InitParse /\ [][NextParse]_vars

(***************************************************************************)
(* SpecStats: one analyzeAll call of at most MaxBatch items, while a       *)
(* caller takes a snapshot with getStats at any moment, writes to it, and  *)
(* resets the statistics once the call has resolved.                       *)
(***************************************************************************)
NextStats ==
   \/ \E repos \in Batches, skipCache \in BOOLEAN : AnalyzeAll(1, repos, skipCache)
   \/ \E t \in TaskIds : FileExists(t)
   \/ \E t \in TaskIds : ReadJSON(t)
   \/ \E t \in TaskIds, outcome \in RunsOutcomes : GenerateContent(t, outcome)
   \/ \E t \in TaskIds, ok \in BOOLEAN : WriteJSON(t, ok)
   \/ ResetStats
   \/ GetStats
   \/ \E field \in {"total", "analyzed"} : MutateSnapshot(field)

SpecStats == InitRuns /\ [][NextStats]_vars

(***************************************************************************)
(* SpecCli: one execution of an entry point, with any flags, over a batch  *)
(* of at most MaxBatch repositories; every report and sync operation       *)
(* either resolves or rejects.                                             *)
(***************************************************************************)
NextCli ==
   \/ \E entry \in Entries, flags \in Flags : CliStart(entry, flags, NoModelOption, "")
   \/ \E ok \in BOOLEAN, repos \in Batches : CliFetch(ok, repos)
   \/ \E t \in TaskIds : FileExists(t)
   \/ \E t \in TaskIds : ReadJSON(t)
   \/ \E t \in TaskIds, outcome \in RunsOutcomes : GenerateContent(t, outcome)
   \/ \E t \in TaskIds, ok \in BOOLEAN : WriteJSON(t, ok)
   \/ CliAnalyzed
   \/ \E ok \in BOOLEAN : CliSettle(ok)
   \/ \E ok \in BOOLEAN : CliShutdown(ok)

SpecCli == InitRuns /\ [][NextCli]_vars

(***************************************************************************)
(* SpecHang: one analyzeAll call of one item, where a call of the endpoint *)
(* may never be answered.  The event loop keeps running: a step that can   *)
(* be taken is eventually taken.                                           *)
(***************************************************************************)
NextHang ==
   \/ \E repo \in Repos, skipCache \in BOOLEAN : AnalyzeAll(1, <<repo>>, skipCache)
   \/ \E t \in TaskIds : FileExists(t)
   \/ \E t \in TaskIds : ReadJSON(t)
   \/ \E t \in TaskIds, outcome \in EndpointOutcomes : GenerateContent(t, outcome)
   \/ \E t \in TaskIds : NeverResponds(t)
   \/ \E t \in TaskIds, ok \in BOOLEAN : WriteJSON(t, ok)

SpecHang == Init /\ [][NextHang]_vars /\ WF_vars(NextHang)

(***************************************************************************)
(* SpecLists: one clearAllLists call on an account with at most MaxLists   *)
(* lists.                                                                  *)
(***************************************************************************)
NextLists ==
   \/ ClearAllLists
   \/ \E ok \in BOOLEAN, n \in 0..MaxLists : GetAllLists(ok, n)
   \/ \E j \in 1..MaxLists, outcome \in GhOutcomes : ExecaGh(j, outcome)

SpecLists == InitParse /\ [][NextLists]_vars

(***************************************************************************)
(* SpecAssign: one assignReposToLists call over at most MaxResults         *)
(* results, of two categories, none or every third of them failed, and     *)
(* over the lists createLists returned: all of them, all but the first,    *)
(* the first two, or none.                                                 *)
(***************************************************************************)
MaxResults == 21

StarredRepo(i) == [full_name |-> <<"o", "/", ToString(i)>>, node_id |-> ToString(i)]

\* createList: the list GitHub made for CATEGORIES[i], named emoji + " " +
\* name; its id is i
createList(i) ==
   [id |-> i, name |-> CATEGORIES[i].emoji \o <<" ">> \o CATEGORIES[i].name]
\* createLists: the lists that are not null, in the order of CATEGORIES
createLists(created) ==
   SelectSeq([i \in 1..Len(CATEGORIES) |-> IF i \in created THEN createList(i)
                                           ELSE [id |-> Undefined, name |-> <<>>]],
             LAMBDA l : l.id # Undefined)

ListsGiven ==
   { createLists(created) : created \in { 1..Len(CATEGORIES), 2..Len(CATEGORIES),
                                          {1, 2}, {} } }

\* the records analyzeAll returns for n items
ResultsGiven(n, failedEvery) ==
   [i \in 1..n |->
      IF failedEvery > 0 /\ i % failedEvery = 0
      THEN failedResult(StarredRepo(i), <<"timeout">>)
      ELSE freshResult(StarredRepo(i),
                       [categorization |-> [category |-> CATEGORIES[1 + (i % 2)].name,
                                            confidence |-> 90, reasoning |-> <<"r">>],
                        groundingChunks |-> 0])]

NextAssign ==
   \/ \E n \in 0..MaxResults, failedEvery \in {0, 3}, lists \in ListsGiven :
         AssignReposToLists(ResultsGiven(n, failedEvery), lists)
   \/ \E j \in 1..((MaxResults + BATCH_SIZE - 1) \div BATCH_SIZE),
         outcome \in GhOutcomes : AssignReposBatch(j, outcome)

SpecAssign == InitParse /\ [][NextAssign]_vars

(***************************************************************************)
(* SpecModel: a dry run of an entry point over one repository, with any    *)
(* of --fast and --model and any GEMINI_MODEL in the environment, up to    *)
(* the end of the analysis.                                                *)
(***************************************************************************)
ModelOptions == [fast : BOOLEAN, model : {"", "gemini-2.5-pro"}]
EnvModels == {"", "gemini-2.5-pro", "gemini-2.0-flash"}
DryRun == [dryRun |-> TRUE, keepLists |-> FALSE, skipCache |-> FALSE]

NextModel ==
   \/ \E entry \in Entries, options \in ModelOptions, env \in EnvModels :
         CliStart(entry, DryRun, options, env)
   \/ \E ok \in BOOLEAN, repo \in Repos : CliFetch(ok, <<repo>>)
   \/ \E t \in TaskIds : FileExists(t)
   \/ \E t \in TaskIds : ReadJSON(t)
   \/ \E t \in TaskIds, outcome \in RunsOutcomes : GenerateContent(t, outcome)
   \/ \E t \in TaskIds, ok \in BOOLEAN : WriteJSON(t, ok)
   \/ CliAnalyzed

SpecModel == InitRuns /\ [][NextModel]_vars

(***************************************************************************)
(* The answers of the endpoint.  One call of one item that skips the cache *)
(* on an empty cache directory; the endpoint answers with a text that is   *)
(* malformed, with an object followed by more text, or rejects with an     *)
(* error of one of the shapes isRetryableError distinguishes.              *)
(***************************************************************************)
AiLlm == <<"A","I"," ","&"," ","L","L","M">>

\* the malformed answers: no braces at all, braces around something that is
\* not JSON, the empty text, an object without category, with a category
\* that is not a string, and with a blank category
NoBracesText == <<Word>>
NotJsonText == <<LBrace, Word, RBrace>>
EmptyText == <<>>
NoCategoryText == <<LBrace, Fields(FALSE, FALSE, <<>>, 90), RBrace>>
NonStringText == <<LBrace, Fields(TRUE, FALSE, <<>>, 90), RBrace>>
BlankText == <<LBrace, Fields(TRUE, TRUE, <<" ", " ">>, 90), RBrace>>
MalformedTexts ==
   { NoBracesText, NotJsonText, EmptyText, NoCategoryText, NonStringText, BlankText }

\* a complete object with text around it: only words, or words and braces
\* after the object
ObjectText == <<LBrace, Fields(TRUE, TRUE, AiLlm, 90), RBrace>>
SurroundedTexts ==
   { ObjectText,
     <<Word>> \o ObjectText \o <<Word>>,
     ObjectText \o <<Word, LBrace, Word, RBrace>>,
     ObjectText \o <<Word, LBrace, RBrace, Word>>,
     ObjectText \o <<Word, RBrace>> }

TextOutcomes ==
   { [kind |-> "result", text |-> ReadText(raw),
      groundingChunks |-> 0, totalTokenCount |-> 10] :
        raw \in MalformedTexts \cup SurroundedTexts }

\* the errors generateContent rejects with: API errors with a status, an
\* error.code, an error.status or a telling message, and GeminiAPIError
\* values with either flag and several status codes
ErrorInputs ==
   { PlainError(<<"Too","Many","Requests">>, 429, Undefined, ""),
     PlainError(<<"Service","down">>, 503, Undefined, ""),
     PlainError(<<"quota">>, Undefined, 429, ""),
     PlainError(<<"down">>, Undefined, 503, ""),
     PlainError(<<"down">>, Undefined, Undefined, "UNAVAILABLE"),
     PlainError(<<"Service","returned","503","error">>, Undefined, Undefined, ""),
     PlainError(<<"Server","is","overloaded">>, Undefined, Undefined, ""),
     PlainError(<<"Service","UNAVAILABLE">>, Undefined, Undefined, ""),
     PlainError(<<"Bad","Request">>, 400, Undefined, ""),
     PlainError(<<"Unauthorized">>, 401, Undefined, ""),
     PlainError(<<"Unauthorized">>, Undefined, 401, "UNAUTHENTICATED"),
     PlainError(<<"Invalid","request">>, Undefined, Undefined, ""),
     GeminiAPIError(<<"Test">>, 503, TRUE),
     GeminiAPIError(<<"Test">>, 400, TRUE),
     GeminiAPIError(<<"Test">>, Undefined, TRUE),
     GeminiAPIError(<<"Test">>, 400, FALSE),
     GeminiAPIError(<<"Test">>, 503, FALSE),
     GeminiAPIError(<<"Service","UNAVAILABLE">>, 429, FALSE) }

ErrorOutcomes == { [kind |-> "error", error |-> e] : e \in ErrorInputs }

InitAnswers ==
   /\ cache = [k \in Keys |-> NoFile]
   /\ cache0 = cache
   /\ stats = ZeroStats
   /\ queue = <<>>
   /\ runs = [r \in RunIds |-> IdleRun]
   /\ tasks = [t \in TaskIds |-> IdleTask]
   /\ snap = NoSnapshot
   /\ cli = IdleCli
   /\ gh = IdleGh

NextAnswers ==
   \/ \E repo \in Repos : AnalyzeAll(1, <<repo>>, TRUE)
   \/ \E t \in TaskIds, outcome \in TextOutcomes \cup ErrorOutcomes :
         GenerateContent(t, outcome)
   \/ \E t \in TaskIds, ok \in BOOLEAN : WriteJSON(t, ok)

SpecAnswers == InitAnswers /\ [][NextAnswers]_vars

(***************************************************************************)
(* Properties.                                                             *)
(***************************************************************************)
\* the jobs of a call, and those among them that have settled with a record
JobsOf(r) == { t \in TaskIds : t[1] = r /\ t[2] <= Len(runs[r].repos) }
Resolved(r) == runs[r].state = "resolved"
Returned(t) == tasks[t].pc = "done" /\ tasks[t].result # <<>>
ResultOf(t) == tasks[t].result[1]

\* C1: once an analyzeAll call has resolved, the counters satisfy
\* total = analyzed + cached + failed.
C1_TotalIsSumOfOutcomes ==
   Resolved(1) => stats.total = stats.analyzed + stats.cached + stats.failed

\* C2: a rejection of categorize never crosses out of analyzeAll: no call
\* rejects, a job whose categorize rejected returns a record with failed =
\* true, a pending call always has a job in flight that can take a step, and
\* a resolved call has a record of every item of its batch.
C2_FailuresStayLocal ==
   /\ \A r \in RunIds : runs[r].state # "rejected"
   /\ \A t \in TaskIds :
         tasks[t].threw => Returned(t) /\ IsFailed(ResultOf(t))
   /\ \A r \in RunIds :
         runs[r].state = "pending" => Running # {}
   /\ \A r \in RunIds :
         Resolved(r) =>
            \A t \in JobsOf(r) :
               /\ Returned(t)
               /\ Cardinality({ i \in 1..Len(runs[r].order) : runs[r].order[i] = t[2] }) = 1

\* a resolved call of two items: categorize rejected for one, which came
\* back as a failed record, and the other was analyzed and stored
C2_Witness ==
   /\ Resolved(1)
   /\ \E t, u \in JobsOf(1) :
         /\ tasks[t].threw /\ IsFailed(ResultOf(t))
         /\ ~IsFailed(ResultOf(u)) /\ tasks[u].wrote

\* C3: a resolved call returns as many records as it was given items, one
\* per item, and every item was counted under exactly one of cached,
\* analyzed, failed.
C3_OneOutcomePerItem ==
   \A r \in RunIds :
      Resolved(r) =>
         /\ Len(Results(r)) = Len(runs[r].repos)
         /\ \A t \in JobsOf(r) :
               /\ Returned(t)
               /\ ResultOf(t).repo = RepoOf(t)
               /\ Cardinality(tasks[t].counted) = 1

\* C4: a job of a call with skipCache = false whose lookup found a stored
\* record does not call categorize or saveAnalysis, increments only the
\* cached counter, and returns the stored classification with cached = true.
C4_CacheShortCircuit ==
   \A t \in TaskIds :
      (tasks[t].found # <<>> /\ tasks[t].pc # "read") =>
         /\ tasks[t].pc = "done"
         /\ tasks[t].calls = 0
         /\ tasks[t].saves = 0
         /\ ~tasks[t].wrote
         /\ tasks[t].counted = {"cached"}
         /\ ResultOf(t).cached = TRUE
         /\ ResultOf(t).categorization = tasks[t].found[1].categorization

\* a job served from a record that was stored with cached = false
C4_Witness ==
   \E t \in TaskIds :
      /\ ~runs[t[1]].skipCache
      /\ tasks[t].found # <<>> /\ tasks[t].found[1].cached = FALSE
      /\ Returned(t) /\ stats.cached = 1

\* C5 as claimed: every job of a call with skipCache = true makes no cache
\* read, calls categorize once, returns a record with cached = false and
\* stores that record in the cache.
C5_AlwaysStores ==
   \A t \in TaskIds :
      (runs[t[1]].skipCache /\ tasks[t].pc = "done") =>
         /\ tasks[t].reads = 0
         /\ tasks[t].calls = 1
         /\ Returned(t) /\ ResultOf(t).cached = FALSE
         /\ tasks[t].wrote

\* the jobs that share a job's cache key and whose saveAnalysis returned
Writers(k) == { u \in TaskIds : tasks[u].wrote /\ KeyOf(u) = k }

\* C5, amended: with skipCache = true a job never reads the cache, calls
\* categorize exactly once and returns a record with cached = false; it
\* calls saveAnalysis exactly when the classification succeeded, the record
\* replaces the old entry when that write succeeds, and a failed item
\* stores nothing: its old entry stays.
C5_SkipCacheOverride ==
   \A t \in TaskIds :
      (runs[t[1]].skipCache /\ tasks[t].pc \notin {"idle", "queued"}) =>
         /\ tasks[t].reads = 0
         /\ tasks[t].found = <<>>
         /\ tasks[t].calls = 1
         /\ tasks[t].pc = "done" =>
               /\ Returned(t) /\ ResultOf(t).cached = FALSE
               /\ tasks[t].saves = IF tasks[t].threw THEN 0 ELSE 1
               /\ IsFailed(ResultOf(t)) => ~tasks[t].wrote
               /\ tasks[t].wrote =>
                     /\ cache[KeyOf(t)] \in { JsonFile(ResultOf(u)) : u \in Writers(KeyOf(t)) }
                     /\ Writers(KeyOf(t)) = {t} => cache[KeyOf(t)] = JsonFile(ResultOf(t))
               /\ Writers(KeyOf(t)) = {} => cache[KeyOf(t)] = cache0[KeyOf(t)]

\* a job that classified an item again although a record was stored, and
\* replaced that record
C5_Witness ==
   \E t \in TaskIds :
      /\ runs[t[1]].skipCache /\ tasks[t].pc = "done" /\ tasks[t].wrote
      /\ cache0[KeyOf(t)].kind = "json"
      /\ cache[KeyOf(t)] = JsonFile(ResultOf(t))
      /\ cache[KeyOf(t)] # cache0[KeyOf(t)]

\* the item of job t failed in call r
FailedIn(r, repo) ==
   \E t \in JobsOf(r) : RepoOf(t) = repo /\ Returned(t) /\ IsFailed(ResultOf(t))
\* call q is the first call made after call r resolved
NextAfter(r, q) ==
   /\ r \in runs[q].prior
   /\ \A p \in RunIds : (p < q /\ runs[p].state # "idle") => r \notin runs[p].prior
NoFailedRecordStored ==
   \A k \in Keys : cache[k].kind = "json" => ~IsFailed(cache[k].value)

\* C6 as claimed: no failed record is stored in the cache, and an item that
\* failed in one call is classified again by the next call without
\* skipCache.
C6_FailedAlwaysRetried ==
   /\ NoFailedRecordStored
   /\ \A r, q \in RunIds :
         (NextAfter(r, q) /\ ~runs[q].skipCache) =>
            \A t \in JobsOf(q) :
               (FailedIn(r, RepoOf(t)) /\ tasks[t].pc = "done") => tasks[t].calls = 1

\* C6, amended: no failed record is ever stored in the cache; an item that
\* failed in one call is classified again by a later call without skipCache
\* unless a record of a successful classification lies under its cache key,
\* left by an earlier process or stored by another job.
C6_FailedNeverCached ==
   /\ NoFailedRecordStored
   /\ \A r, q \in RunIds :
         (r \in runs[q].prior /\ ~runs[q].skipCache) =>
            \A t \in JobsOf(q) :
               (FailedIn(r, RepoOf(t)) /\ tasks[t].pc = "done") =>
                  \/ tasks[t].calls = 1
                  \/ /\ tasks[t].found # <<>>
                     /\ ~IsFailed(tasks[t].found[1])
                     /\ \/ cache0[KeyOf(t)].kind = "json"
                        \/ Writers(KeyOf(t)) # {}

\* an item failed in the first call, nothing lies under its key, and the
\* second call, without skipCache, has called categorize for it again
C6_Witness ==
   \E r, q \in RunIds :
      /\ NextAfter(r, q) /\ ~runs[q].skipCache
      /\ \E t \in JobsOf(q) :
            /\ FailedIn(r, RepoOf(t))
            /\ tasks[t].pc = "done" /\ tasks[t].calls = 1
            /\ cache0[KeyOf(t)].kind # "json"

\* categorize resolved for the job: a successful classification
Classified(t) == tasks[t].response # <<>>
AllJobs == UNION { JobsOf(r) : r \in RunIds }

\* C7 as claimed: while every call has skipCache = false, no identity is
\* classified successfully by two jobs.
C7_AtMostOncePerIdentity ==
   (\A r \in RunIds : ~runs[r].skipCache) =>
      \A t, u \in AllJobs :
         (t # u /\ RepoOf(t).full_name = RepoOf(u).full_name) =>
            ~(Classified(t) /\ Classified(u))

\* C7, amended: with skipCache = false, a job that starts after a record
\* was stored under its item's cache key is served from the cache and does
\* not call the classifier; an identity is classified twice only by jobs
\* that were in flight together or after a failed cache write.
C7_NoClassificationOnceStored ==
   \A u \in AllJobs :
      (~runs[u[1]].skipCache /\ tasks[u].stored # {}) =>
         /\ tasks[u].calls = 0
         /\ ~Classified(u)
         /\ tasks[u].pc = "done" => tasks[u].found # <<>>

\* a job of a later call served from the record an earlier job stored
C7_Witness ==
   \E t, u \in AllJobs :
      /\ t # u /\ RepoOf(t).full_name = RepoOf(u).full_name
      /\ ~runs[t[1]].skipCache /\ ~runs[u[1]].skipCache
      /\ Classified(t) /\ tasks[t].wrote
      /\ t \in tasks[u].stored
      /\ tasks[u].pc = "done" /\ tasks[u].found = <<ResultOf(t)>>

\* C8: the number of jobs in flight never exceeds the configured
\* concurrency, overlapping analyzeAll calls included.
C8_BoundedConcurrency ==
   Cardinality(Running) <= CATEGORIZER_CONCURRENCY

\* two overlapping calls, as many jobs in flight as allowed, one waiting
C8_Witness ==
   /\ \A r \in {1, 2} : runs[r].state = "pending"
   /\ Cardinality(Running) = CATEGORIZER_CONCURRENCY
   /\ queue # <<>>

\* C9: the progress callback of a call is invoked once per settled item,
\* the n-th invocation carries current = n, and a resolved call of N items
\* has made exactly N invocations.
C9_ProgressCounts ==
   \A r \in RunIds :
      /\ Len(runs[r].progress) = runs[r].completed
      /\ runs[r].completed <= Len(runs[r].repos)
      /\ \A i \in 1..Len(runs[r].progress) : runs[r].progress[i].current = i
      /\ Resolved(r) => Len(runs[r].progress) = Len(runs[r].repos)
      /\ \A t \in JobsOf(r) :
            tasks[t].emitted = IF tasks[t].pc = "done" THEN 1 ELSE 0

\* a resolved call of two items, one served from the cache and one failed,
\* that overlapped with another call
C9_Witness ==
   \E r, q \in RunIds :
      /\ r # q /\ Resolved(r) /\ Resolved(q)
      /\ r \notin runs[q].prior /\ q \notin runs[r].prior
      /\ Len(runs[r].progress) = 2
      /\ runs[r].progress[2].current = 2
      /\ \E t, u \in JobsOf(r) :
            tasks[t].counted = {"cached"} /\ tasks[u].counted = {"failed"}

\* C10 as claimed: every returned record carries a category of CATEGORIES.
C10_CategoryInTaxonomy ==
   \A t \in TaskIds :
      Returned(t) => ResultOf(t).categorization.category \in CATEGORY_NAMES

\* C10, amended: every returned record that is not failed carries a
\* category of CATEGORIES; a failed record carries "Uncategorized", which
\* is no name of CATEGORIES.
C10_CategoryInTaxonomyUnlessFailed ==
   /\ Uncategorized \notin CATEGORY_NAMES
   /\ \A t \in TaskIds :
         Returned(t) =>
            IF IsFailed(ResultOf(t))
            THEN ResultOf(t).categorization.category = Uncategorized
            ELSE ResultOf(t).categorization.category \in CATEGORY_NAMES

\* a call that returned a record normalized to the fallback entry and a
\* failed record
C10_Witness ==
   /\ Resolved(1)
   /\ \E t, u \in JobsOf(1) :
         /\ ~IsFailed(ResultOf(t))
         /\ ResultOf(t).categorization.category = OtherTools
         /\ ResultOf(t).categorization.reasoning[1] = "Original: "
         /\ IsFailed(ResultOf(u))

\* C11: an attempt of categorize that fails with an error flagged
\* non-retryable is the job's last attempt: no further attempt is made and
\* the item comes back failed.
C11_NonRetryableAborts ==
   \A t \in TaskIds :
      \A i \in 1..Len(tasks[t].failures) :
         ~tasks[t].failures[i].retryable =>
            /\ i = Len(tasks[t].failures)
            /\ tasks[t].attempt = i
            /\ Returned(t) /\ IsFailed(ResultOf(t))

\* C12: a job invokes the endpoint at most RETRY_MAX_ATTEMPTS times, and
\* after RETRY_MAX_ATTEMPTS failed attempts the item is failed with the last
\* error.
C12_AtMostMaxAttempts ==
   \A t \in TaskIds :
      /\ tasks[t].attempt <= RETRY_MAX_ATTEMPTS
      /\ Len(tasks[t].failures) = RETRY_MAX_ATTEMPTS =>
            /\ Returned(t) /\ IsFailed(ResultOf(t))
            /\ ResultOf(t).error = tasks[t].failures[RETRY_MAX_ATTEMPTS].message

\* C13: a job whose attempts failed with retryable errors k times and then
\* succeeded, on an attempt not above RETRY_MAX_ATTEMPTS, ends analyzed and
\* not failed: counted once, in analyzed, with its record stored.
C13_RetryThenSuccess ==
   \A t \in TaskIds :
      ( /\ tasks[t].pc = "done" /\ Classified(t)
        /\ \A i \in 1..Len(tasks[t].failures) : tasks[t].failures[i].retryable
        /\ Len(tasks[t].failures) + 1 <= RETRY_MAX_ATTEMPTS ) =>
         /\ ~IsFailed(ResultOf(t))
         /\ tasks[t].counted = {"analyzed"}
         /\ tasks[t].wrote
         /\ cache[KeyOf(t)].kind = "json"

\* C14: when saveAnalysis fails after a successful classification, the call
\* is not aborted and the item keeps its classification: its record is not
\* failed and carries the classifier's categorization.
C14_WriteFailureKeepsClassification ==
   \A t \in TaskIds :
      (tasks[t].pc = "done" /\ tasks[t].saves = 1 /\ ~tasks[t].wrote) =>
         /\ runs[t[1]].state # "rejected"
         /\ Returned(t) /\ ~IsFailed(ResultOf(t))
         /\ ResultOf(t).categorization = tasks[t].response[1].categorization

\* C15: distinct identities have distinct cache keys, so a job reads only
\* a record stored for its own identity and overwrites only an entry of its
\* own identity.
C15_CollisionFreeKeys ==
   /\ \A t, u \in AllJobs :
         RepoOf(t).full_name # RepoOf(u).full_name => KeyOf(t) # KeyOf(u)
   /\ \A t \in AllJobs :
         tasks[t].found # <<>> =>
            tasks[t].found[1].repo.full_name = RepoOf(t).full_name
   /\ \A t \in AllJobs :
         (tasks[t].wrote /\ cache0[KeyOf(t)].kind = "json") =>
            cache0[KeyOf(t)].value.repo.full_name = RepoOf(t).full_name

\* the records saved under an identity: by a job, or by an earlier process
SavedFor(name) ==
   { ResultOf(t) : t \in { u \in TaskIds : tasks[u].wrote /\ RepoOf(u).full_name = name } }
   \cup
   { cache0[k].value :
        k \in { j \in Keys : cache0[j].kind = "json"
                             /\ cache0[j].value.repo.full_name = name } }

\* a job whose getAnalysis call has returned
LookedUp(t) == tasks[t].reads = 1 /\ tasks[t].pc \in {"generate", "write", "done"}

\* C16: getAnalysis of an identity returns a record saved for that
\* identity, equal to it except for cached = true; it returns null for an
\* identity never saved; and after a save the entry holds the saved record.
C16_CacheRoundTrip ==
   /\ \A u \in AllJobs :
         LookedUp(u) =>
            /\ SavedFor(RepoOf(u).full_name) = {} => tasks[u].found = <<>>
            /\ tasks[u].found # <<>> =>
                  /\ tasks[u].found[1] \in SavedFor(RepoOf(u).full_name)
                  /\ ResultOf(u) = [tasks[u].found[1] EXCEPT !.cached = TRUE]
   /\ \A t \in AllJobs :
         (tasks[t].wrote /\ Writers(KeyOf(t)) = {t}) =>
            getAnalysisRead(cache[KeyOf(t)]) = <<[ResultOf(t) EXCEPT !.cached = TRUE]>>

\* C17: when the entry of an item cannot be deserialized, getAnalysis
\* returns null without throwing and the job goes on as on a cache miss: it
\* calls the classifier once and is not counted as cached.
C17_ReadsFailOpen ==
   \A t \in AllJobs :
      ( /\ ~runs[t[1]].skipCache
        /\ cache0[KeyOf(t)] = CorruptFile
        /\ Writers(KeyOf(t)) \subseteq {t}
        /\ tasks[t].pc \in {"generate", "write", "done"} ) =>
         /\ tasks[t].reads = 1
         /\ tasks[t].found = <<>>
         /\ tasks[t].calls = 1
         /\ "cached" \notin tasks[t].counted
         /\ runs[t[1]].state # "rejected"
         /\ tasks[t].pc = "done" =>
               /\ Returned(t) /\ ResultOf(t).cached = FALSE
               /\ tasks[t].threw \/ Classified(t)

\* a job met an unreadable entry, classified its item and replaced the entry
C17_Witness ==
   \E t \in AllJobs :
      /\ ~runs[t[1]].skipCache
      /\ cache0[KeyOf(t)] = CorruptFile
      /\ tasks[t].pc = "done" /\ tasks[t].reads = 1 /\ Classified(t) /\ tasks[t].wrote
      /\ ~IsFailed(ResultOf(t))
      /\ cache[KeyOf(t)] = JsonFile(ResultOf(t))

\* the progress event of a settled job: the events of a call come in the
\* order its records are pushed
EventOf(t) ==
   LET r == t[1]
       i == CHOOSE j \in 1..Len(runs[r].order) : runs[r].order[j] = t[2]
   IN  runs[r].progress[i]

\* C18: when categorize rejects, the returned record has category
\* "Uncategorized", confidence 0, failed = true, error equal to the message
\* of the error categorize threw, reasoning containing that message,
\* cached = false and webSearchCalls 0, and the progress event of the item
\* has cached = false and no category.
C18_FailedRecordShape ==
   \A t \in AllJobs :
      (tasks[t].pc = "done" /\ tasks[t].threw) =>
         LET msg == tasks[t].failures[Len(tasks[t].failures)].message
             r == ResultOf(t)
         IN  /\ r.repo = RepoOf(t)
             /\ r.categorization.category = Uncategorized
             /\ r.categorization.confidence = 0
             /\ Len(r.categorization.reasoning) = 2
             /\ r.categorization.reasoning[2] = msg
             /\ r.failed = TRUE
             /\ r.error = msg
             /\ r.cached = FALSE
             /\ r.webSearchCalls = 0
             /\ DOMAIN EventOf(t) = {"current", "total", "repo", "cached"}
             /\ EventOf(t).cached = FALSE
             /\ EventOf(t).repo = RepoOf(t).full_name

\* a job failed after a retryable and a non-retryable failure, next to a
\* job that was analyzed
C18_Witness ==
   \E t, u \in JobsOf(1) :
      /\ tasks[t].pc = "done" /\ tasks[t].threw
      /\ Len(tasks[t].failures) = 2
      /\ tasks[t].failures[1].retryable /\ ~tasks[t].failures[2].retryable
      /\ ResultOf(t).error = <<"Gemini", "API", "error:", "Invalid", "request">>
      /\ tasks[u].pc = "done" /\ ~IsFailed(ResultOf(u))

\* the taxonomy entries the three rules match a trimmed category with
RuleHits(c) ==
   { i \in 1..Len(CATEGORIES) :
        \/ c = CATEGORIES[i].name
        \/ c = CATEGORIES[i].emoji \o <<" ">> \o CATEGORIES[i].name
        \/ Includes(c, CATEGORIES[i].name) }

\* C19: the trimmed category of the answer is replaced by the name of the
\* first taxonomy entry, in declared order, that it equals, equals behind
\* the emoji and a space, or contains; with no such entry the category is
\* "Other Tools" and the reasoning embeds the original string; no error is
\* raised.
C19_NormalizationRule ==
   \A t \in AllJobs :
      /\ tasks[t].pc \in {"write", "done"} => Classified(t) /\ tasks[t].failures = <<>>
      /\ Classified(t) =>
            LET c == Trim(tasks[t].answer[1].category)
                out == tasks[t].response[1].categorization
            IN  /\ out.confidence = tasks[t].answer[1].confidence
                /\ IF RuleHits(c) = {}
                   THEN /\ out.category = OtherTools
                        /\ out.reasoning = <<"Original: ", c, ". Fallback to Other Tools.">>
                   ELSE /\ \E i \in RuleHits(c) :
                              /\ \A j \in RuleHits(c) : i <= j
                              /\ out.category = CATEGORIES[i].name
                        /\ out.reasoning = tasks[t].answer[1].reasoning

\* an answer that contains two names, the later entry first in the string,
\* was normalized to the entry declared first
C19_Witness ==
   \E t \in AllJobs :
      /\ Classified(t)
      /\ Cardinality(RuleHits(Trim(tasks[t].answer[1].category))) = 2
      /\ Includes(tasks[t].answer[1].category, CATEGORIES[9].name)
      /\ tasks[t].response[1].categorization.category = CATEGORIES[8].name
      /\ tasks[t].wrote

\* C20: an answer whose category is exactly the name of a taxonomy entry is
\* normalized to that name, for every entry of the taxonomy.
C20_ExactNameKept ==
   \A t \in AllJobs :
      Classified(t) =>
         \A i \in 1..Len(CATEGORIES) :
            tasks[t].answer[1].category = CATEGORIES[i].name =>
               /\ tasks[t].response[1].categorization.category = CATEGORIES[i].name
               /\ tasks[t].response[1].categorization.reasoning
                     = tasks[t].answer[1].reasoning

\* every name of the taxonomy is among the answers, and the answer "Other
\* Tools", the last entry, came back as "Other Tools" by the match and not
\* by the fallback
C20_Witness ==
   /\ CATEGORY_NAMES \subseteq ParseCategories
   /\ \E t \in AllJobs :
         /\ Classified(t)
         /\ tasks[t].answer[1].category = CATEGORIES[Len(CATEGORIES)].name
         /\ tasks[t].response[1].categorization.category = CATEGORIES[Len(CATEGORIES)].name
         /\ tasks[t].response[1].categorization.reasoning = <<"Brief explanation">>

\* C21: every malformed response of the classifier (no {...}, a {...} that
\* is not JSON, an empty text, an object whose category is missing, not a
\* string or blank) makes the attempt fail with an error flagged retryable.
C21_MalformedIsRetryable ==
   \A t \in TaskIds : \A i \in 1..Len(tasks[t].failures) :
      LET got == tasks[t].received[i]
      IN  (got.kind = "result" /\ got.text.raw \in MalformedTexts)
             => tasks[t].failures[i].retryable

\* a text made of a complete object followed by text with braces
TrailingBraces(raw) ==
   /\ Len(raw) > 3
   /\ SubSeq(raw, 1, 3) = ObjectText
   /\ \E i \in 4..Len(raw) : raw[i].tok \in {"{", "}"}

\* C22: a text that holds a complete JSON object followed by other text
\* with braces is classified by that first object.
C22_FirstBalancedObject ==
   \A t \in TaskIds : \A i \in 1..Len(tasks[t].received) :
      LET got == tasks[t].received[i]
      IN  (got.kind = "result" /\ TrailingBraces(got.text.raw))
             => /\ Len(tasks[t].failures) < i
                /\ tasks[t].response # <<>>
                /\ tasks[t].response[1].categorization.category = AiLlm

\* the verdict the tests of isRetryableError expect
ExpectedRetryable(e) ==
   IF e.class = "GeminiAPIError"
   THEN e.retryable
   ELSE \/ e.status \in {429, 503}
        \/ e.code \in {429, 503}
        \/ e.errorStatus = "UNAVAILABLE"
        \/ \E w \in {"503", "overloaded", "UNAVAILABLE"} :
              \E i \in 1..Len(e.message) : e.message[i] = w

\* C23: an error is retryable exactly when it is a GeminiAPIError whose
\* retryable flag is set, or it is no GeminiAPIError and has status or code
\* 429 or 503, or error.status "UNAVAILABLE", or a message containing "503",
\* "overloaded" or "UNAVAILABLE"; the flag the wrapping GeminiAPIError
\* carries is the verdict on the error the endpoint rejected with.
C23_RetryableExactly ==
   \A t \in TaskIds : \A i \in 1..Len(tasks[t].failures) :
      LET got == tasks[t].received[i]
      IN  got.kind = "error"
             => tasks[t].failures[i].retryable = ExpectedRetryable(got.error)
\* a GeminiAPIError with status code 503 and retryable = false was judged
C23_Witness ==
   \E t \in TaskIds :
      /\ Len(tasks[t].failures) = 1
      /\ tasks[t].received[1].kind = "error"
      /\ tasks[t].received[1].error = GeminiAPIError(<<"Test">>, 503, FALSE)
      /\ ~tasks[t].failures[1].retryable

\* the items a call returned as analyzed, and the sums of what the
\* classifier reported for a set of items
AnalyzedItems(r) ==
   { t \in JobsOf(r) :
        Returned(t) /\ ~IsFailed(ResultOf(t)) /\ ~ResultOf(t).cached }
RECURSIVE SumTokens(_)
SumTokens(S) ==
   IF S = {} THEN 0
   ELSE LET t == CHOOSE u \in S : TRUE
        IN  tasks[t].response[1].tokensUsed + SumTokens(S \ {t})
RECURSIVE SumChunks(_)
SumChunks(S) ==
   IF S = {} THEN 0
   ELSE LET t == CHOOSE u \in S : TRUE
        IN  tasks[t].response[1].groundingChunks + SumChunks(S \ {t})

\* C24: after a call that started from zeroed statistics has resolved,
\* totalTokens is the sum of tokensUsed and totalWebSearches the sum of
\* groundingChunks over the items returned as analyzed (neither cached nor
\* failed); cached and failed items contribute nothing.
C24_TotalsOverAnalyzedItems ==
   (Resolved(1) /\ stats # ZeroStats) =>
      /\ stats.totalTokens = SumTokens(AnalyzedItems(1))
      /\ stats.totalWebSearches = SumChunks(AnalyzedItems(1))

\* C25: the object getStats returned is independent of the statistics:
\* as long as the caller has not written to it, it holds the counters of
\* the moment of the return whatever was incremented or reset since, and a
\* write of the caller to it leaves the statistics, hence what a later
\* getStats returns, unchanged.
C25_IndependentSnapshot ==
   /\ []((snap.taken /\ snap.edits = 0) => SnapshotValue = snap.atReturn)
   /\ [][snap'.edits # snap.edits => stats' = stats]_vars
\* a snapshot was taken, counters were incremented afterwards, and the
\* caller has written to the snapshot
C25_Witness ==
   /\ snap.taken
   /\ snap.edits = 1
   /\ stats # snap.atReturn
   /\ stats # ZeroStats

\* C26: within the lifecycle of one item the steps are ordered: the cache
\* lookup (when the cache is not skipped) is over before the classifier is
\* called, the classifier has answered before the cache write starts, and
\* the cache write is over before the progress event is emitted and the
\* record is returned.
C26_LifecycleOrder ==
   \A t \in AllJobs :
      /\ tasks[t].pc \in {"queued", "exists", "read"} => tasks[t].calls = 0
      /\ (~runs[t[1]].skipCache /\ tasks[t].calls > 0) => tasks[t].reads = 1
      /\ (tasks[t].pc = "write" \/ tasks[t].saves > 0 \/ tasks[t].wrote) => Classified(t)
      /\ tasks[t].pc \in {"queued", "exists", "read", "generate", "write"} =>
            tasks[t].emitted = 0 /\ tasks[t].result = <<>>
      /\ (Returned(t) /\ ~IsFailed(ResultOf(t)) /\ ~ResultOf(t).cached) =>
            tasks[t].wrote /\ tasks[t].emitted = 1
\* an item went through lookup, classification and cache write, and was
\* returned
C26_Witness ==
   \E t \in AllJobs :
      /\ Returned(t)
      /\ tasks[t].reads = 1
      /\ tasks[t].calls = 1
      /\ tasks[t].wrote
      /\ tasks[t].emitted = 1
      /\ ~IsFailed(ResultOf(t))

\* C27: once the pipeline is constructed and the batch has completed, the
\* program ends only after analyzer.shutdown() was invoked exactly once,
\* also when a report or sync step failed.
C27_ShutdownExactlyOnce ==
   (cli.pc = "ended" /\ cli.batch) => cli.shutdowns = 1

\* C28: every call of the classifier is bounded by a timeout: a call that
\* is never answered is ended and its item reaches an outcome.
C28_HungCallEnds ==
   \A t \in TaskIds : tasks[t].hung ~> (tasks[t].pc = "done")

\* the entry point has invoked the operation
Invoked(op) == \E i \in 1..Len(cli.calls) : cli.calls[i] = op

\* C29: with the dry-run flag neither entry point ever invokes
\* clearAllLists, createLists or assignReposToLists, while the batch is
\* analyzed, every classification is handed to the cache for writing, and
\* both report files are saved.
C29_DryRunLeavesListsAlone ==
   cli.flags.dryRun =>
      /\ ~Invoked("clearAllLists")
      /\ ~Invoked("createLists")
      /\ ~Invoked("assignReposToLists")
      /\ cli.ended = "done" =>
            /\ Resolved(1)
            /\ \A t \in JobsOf(1) : Returned(t)
            /\ \A t \in JobsOf(1) : Classified(t) => tasks[t].saves = 1
            /\ Invoked("saveSummary")
            /\ Invoked("saveDetails")
\* a dry run of the command ended after a classification was written to
\* the cache and the reports were saved
C29_Witness ==
   /\ cli.flags.dryRun
   /\ cli.entry = "index"
   /\ cli.ended = "done"
   /\ Invoked("saveDetails")
   /\ \E t \in JobsOf(1) : tasks[t].wrote /\ cache[KeyOf(t)] # cache0[KeyOf(t)]

\* C30: graphqlMutation retries on GitHub's secondary rate limit: when its
\* first gh invocation is rejected with that error it invokes gh a second
\* time, and when the second invocation succeeds it resolves after exactly
\* two invocations.
C30_RetriesOnSecondaryRateLimit ==
   \A j \in 1..Len(gh.jobs) :
      LET m == gh.jobs[j]
      IN  (m.outcomes # <<>> /\ m.outcomes[1] = SecondaryRateLimit) =>
             /\ m.invocations >= 2
             /\ m.pc # "failed" \/ Len(m.outcomes) >= 2
             /\ (Len(m.outcomes) >= 2 /\ m.outcomes[2] = "ok") =>
                   m.pc = "done" /\ m.invocations = 2

\* C31: when every classifier call and every cache operation settles, an
\* analyzeAll call of a finite batch eventually resolves with a record of
\* every item (analyzed, cached or failed), and no job makes more than
\* RETRY_MAX_ATTEMPTS + 1 attempts.
C31_Termination ==
   /\ [](\A t \in TaskIds : tasks[t].attempt <= RETRY_MAX_ATTEMPTS + 1)
   /\ (runs[1].state = "pending") ~>
         (Resolved(1) /\ \A t \in JobsOf(1) : Returned(t))
\* a call of two items has resolved after one of its jobs used every
\* attempt and the other answered on a retry
C31_Witness ==
   /\ Resolved(1)
   /\ \E t, u \in JobsOf(1) :
         /\ t # u
         /\ tasks[t].attempt = RETRY_MAX_ATTEMPTS + 1 /\ IsFailed(ResultOf(t))
         /\ Len(tasks[u].failures) = 1 /\ ~IsFailed(ResultOf(u))

\* what a new AnalyzerService reports after a call alone: the counters
\* summed over the jobs of that call only
CountedAs(r, what) == { t \in JobsOf(r) : what \in tasks[t].counted }
FreshStats(r) ==
   [total |-> Len(runs[r].repos),
    analyzed |-> Cardinality(CountedAs(r, "analyzed")),
    cached |-> Cardinality(CountedAs(r, "cached")),
    failed |-> Cardinality(CountedAs(r, "failed")),
    totalTokens |-> SumTokens(CountedAs(r, "analyzed")),
    totalWebSearches |-> SumChunks(CountedAs(r, "analyzed"))]

\* C32: when resetStats is called between two completed calls on the same
\* AnalyzerService, the statistics after the second call are those a new
\* instance would report for the second call alone.
C32_ResetThenRunIsFresh ==
   \A r, q \in RunIds :
      (/\ Resolved(q) /\ r \in runs[q].prior
       /\ runs[r].reset /\ ~runs[q].reset
       /\ \A p \in RunIds \ {r, q} : runs[p].state = "idle" \/ runs[p].reset)
         => stats = FreshStats(q)
\* the first call counted an analyzed item, resetStats was called, and the
\* second call has resolved with a cached and a failed item
C32_Witness ==
   /\ Resolved(2) /\ 1 \in runs[2].prior
   /\ runs[1].reset /\ ~runs[2].reset
   /\ CountedAs(1, "analyzed") # {}
   /\ CountedAs(2, "cached") # {}
   /\ CountedAs(2, "failed") # {}

\* C33: when the command line gives --fast or --model M, every classifier
\* call of the run uses gemini-2.5-flash, respectively M (every call uses
\* GeminiService.model, line 61).
C33_ModelOptionUsed ==
   \A t \in JobsOf(1) :
      tasks[t].calls > 0 =>
         /\ cli.options.fast => cli.model = "gemini-2.5-flash"
         /\ (~cli.options.fast /\ cli.options.model # "") => cli.model = cli.options.model

\* the assignments of the batches a gh command was run for
AllSent ==
   UNION { { gh.jobs[j].batch[i] : i \in 1..Len(gh.jobs[j].batch) } :
           j \in { k \in 1..Len(gh.jobs) : gh.jobs[k].invocations > 0 } }
\* list l carries the name of category c after its prefix: the name is a
\* prefix without a space, one space, and c
NamedAfterPrefix(l, c) ==
   \E k \in 1..Len(l.name) :
      /\ l.name[k] = " "
      /\ \A i \in 1..(k - 1) : l.name[i] # " "
      /\ Len(l.name) = k + Len(c)
      /\ \A i \in 1..Len(c) : l.name[k + i] = c[i]
ListsOf(result) ==
   { i \in 1..Len(gh.lists) :
       NamedAfterPrefix(gh.lists[i], result.categorization.category) }
\* C34: no assignment is sent for a result with failed = true; a result
\* that did not fail is assigned only to a list whose name after its prefix
\* is the result's category, and to no list when there is no such list.
C34_AssignsByCategory ==
   gh.op = "assignReposToLists" =>
      \A i \in 1..Len(gh.results) :
         LET result == gh.results[i]
             sent == { a \in AllSent : a.nodeId = result.repo.node_id }
         IN  /\ IsFailed(result) => sent = {}
             /\ ListsOf(result) = {} => sent = {}
             /\ \A a \in sent :
                   \E l \in ListsOf(result) : gh.lists[l].id = a.listId
\* batches were sent for results of which some failed, some have a category
\* without a list and some have one with a list
C34_Witness ==
   /\ gh.op = "assignReposToLists"
   /\ AllSent # {}
   /\ \E i \in 1..Len(gh.results) : IsFailed(gh.results[i])
   /\ \E i \in 1..Len(gh.results) :
         ~IsFailed(gh.results[i]) /\ ListsOf(gh.results[i]) = {}
   /\ \E i \in 1..Len(gh.results) :
         /\ ~IsFailed(gh.results[i])
         /\ \E a \in AllSent : a.nodeId = gh.results[i].repo.node_id

\* what there is to assign: a list id and a node id for every result that
\* did not fail and whose category has a list
ToAssign ==
   { [listId |-> gh.lists[p[2]].id, nodeId |-> gh.results[p[1]].repo.node_id] :
       p \in { q \in (1..Len(gh.results)) \X (1..Len(gh.lists)) :
                 /\ ~IsFailed(gh.results[q[1]])
                 /\ NamedAfterPrefix(gh.lists[q[2]],
                                     gh.results[q[1]].categorization.category) } }
\* the places (batch, index) of the batches where assignment a stands
PlacesOf(a) ==
   { p \in (1..Len(gh.jobs)) \X (1..BATCH_SIZE) :
       p[2] <= Len(gh.jobs[p[1]].batch) /\ gh.jobs[p[1]].batch[p[2]] = a }
AllSettled == \A j \in 1..Len(gh.jobs) : gh.jobs[j].pc \in {"done", "failed"}
AllSucceeded == \A j \in 1..Len(gh.jobs) : gh.jobs[j].pc = "done"
\* C35: the batches hold at most 10 assignments each and every assignment
\* stands in exactly one of them, each batch being sent once; no gh command
\* is run when there is nothing to assign; the completed counts reported
\* never decrease, never exceed the total, and the last one is the total
\* once every batch has succeeded.
C35_BatchesAndProgress ==
   gh.op = "assignReposToLists" =>
      LET all == ToAssign
          total == Cardinality(all)
      IN  /\ \A j \in 1..Len(gh.jobs) :
                /\ Len(gh.jobs[j].batch) \in 1..10
                /\ \A i \in 1..Len(gh.jobs[j].batch) : gh.jobs[j].batch[i] \in all
                /\ gh.jobs[j].invocations <= 1
          /\ \A a \in all : Cardinality(PlacesOf(a)) = 1
          /\ AllSettled => \A j \in 1..Len(gh.jobs) : gh.jobs[j].invocations = 1
          /\ all = {} => gh.jobs = <<>>
          /\ gh.total = total
          /\ \A k \in 1..Len(gh.progress) :
                /\ gh.progress[k].total = total
                /\ gh.progress[k].completed <= total
                /\ \A i \in 1..k : gh.progress[i].completed <= gh.progress[k].completed
          /\ (AllSucceeded /\ gh.jobs # <<>>) =>
                /\ gh.pc = "resolved"
                /\ Len(gh.progress) = Len(gh.jobs)
                /\ gh.progress[Len(gh.progress)].completed = total
\* three batches, the last one not full, have all succeeded
C35_Witness ==
   /\ gh.op = "assignReposToLists"
   /\ gh.pc = "resolved"
   /\ Len(gh.jobs) > 2
   /\ Len(gh.jobs[Len(gh.jobs)].batch) < BATCH_SIZE
   /\ Len(gh.progress) = Len(gh.jobs)

\* the names of the failed results (failed = TRUE) or of the results that
\* did not fail and have the category, in the order of the results
RECURSIVE NamesOf(_, _, _)
NamesOf(results, failed, category) ==
   IF results = <<>> THEN <<>>
   ELSE IF /\ IsFailed(Head(results)) = failed
           /\ failed \/ Head(results).categorization.category = category
   THEN <<Head(results).repo.full_name>> \o NamesOf(Tail(results), failed, category)
   ELSE NamesOf(Tail(results), failed, category)
RECURSIVE SumCounts(_, _)
SumCounts(categories, S) ==
   IF S = {} THEN 0
   ELSE LET c == CHOOSE x \in S : TRUE
        IN  categories[c].count + SumCounts(categories, S \ {c})
\* C36: in the report of a batch, failedRepos lists the failed results and
\* no category lists one; every other result is listed and counted once,
\* under its categorization.category; the counts of the categories plus the
\* number of failedRepos are totalRepos, the number of results.
C36_ReportPartitionsResults ==
   cli.report.made =>
      LET results == Results(1)
          report == cli.report
      IN  /\ report.failedRepos = NamesOf(results, TRUE, <<>>)
          /\ \A i \in 1..Len(results) :
                ~IsFailed(results[i]) =>
                   results[i].categorization.category \in DOMAIN report.categories
          /\ \A c \in DOMAIN report.categories :
                /\ report.categories[c].repos = NamesOf(results, FALSE, c)
                /\ report.categories[c].count = Len(report.categories[c].repos)
                /\ report.categories[c].count > 0
          /\ report.totalRepos = Len(results)
          /\ SumCounts(report.categories, DOMAIN report.categories)
                + Len(report.failedRepos) = report.totalRepos
\* a report of two results: one failed, the other did not
C36_Witness ==
   /\ cli.report.made
   /\ cli.report.totalRepos = 2
   /\ Len(cli.report.failedRepos) = 1
   /\ DOMAIN cli.report.categories # {}

\* C37: a record analyzeAll returns for an item carries the full_name and
\* the node_id of that item, whether it was made by the job or read from
\* the cache.
C37_RecordDescribesItsItem ==
   \A t \in TaskIds :
      Returned(t) =>
         /\ ResultOf(t).repo.full_name = RepoOf(t).full_name
         /\ ResultOf(t).repo.node_id = RepoOf(t).node_id

\* C38: at every moment of an analyzeAll call that started from zeroed
\* counters, analyzed + cached + failed is at most total.
C38_OutcomesWithinTotal ==
   (runs[1].state # "idle" /\ ~runs[1].reset) =>
      stats.analyzed + stats.cached + stats.failed <= stats.total

====
